---- MODULE Spec2Model ----
(***************************************************************************)
(* node-imgapi: the two-tier metadata cache (CacheManager of               *)
(* src/cache-manager.js: external Redis client with local Map fallback and *)
(* a reconnect state machine) and the capacity-bound LRU map of the        *)
(* earlier API variants (src/api.js cacheGetFileInfo).                     *)
(*                                                                         *)
(* The Redis client library is not part of the repository.  It is modelled *)
(* by what its documented events do to the handlers the repository         *)
(* registers: a client is "connecting" after connect() was called, "ready" *)
(* after its 'connect' event, "aborted" when disconnect() was called while *)
(* it was connecting (its connect() promise is still unsettled and may     *)
(* still resolve, reject, or never settle), and "closed" when nothing more *)
(* can come from it.  Promise continuations (microtasks) run before any    *)
(* timer or I/O callback: while one is pending (Urgent) only continuations *)
(* are enabled.                                                            *)
(***************************************************************************)
EXTENDS Integers, FiniteSets, Sequences, TLC

\* ------------------------------------------------------------------ bounds
NClients == 2
MaxInflight == 1
MaxTicks == 3
maxRetries == 2
MaxFiles == 4
MAX_CACHE == 2

\* -------------------------------------------------------- program constants
MsPerSec == 1000

Keys == {1, 2}
Values == {1, 2}
ClientIds == 1..NClients
\* the ttl argument of set(): NoArg stands for an omitted or null argument
NoArg == -100
TTLArgs == {NoArg, -1, 0, 2}
\* config.cache.ttl, in seconds
CfgTTLs == {0, 2}
Files == 1..MaxFiles

\* concurrent runs of generateListJson the model follows
MaxBuilds == 2
BuildIds == 1..MaxBuilds

\* path segments: 1 and 2 are ordinary names; '_root', '.' and '..'
ROOT == 7
DOT == 8
DOTDOT == 9
\* the first-level subdirectories of imgDir
SubDirs == {1, 2}
\* the image files that may exist: one under imgDir itself, one in each subdirectory
FileUniverse == {[dir |-> ROOT, name |-> 1], [dir |-> 1, name |-> 1], [dir |-> 2, name |-> 1]}
\* a first-level subdirectory of imgDir whose own name is '_root', the image
\* file it may hold, and the files of every directory the builder may walk
SUBROOT == 6
AllFiles == FileUniverse \cup {[dir |-> SUBROOT, name |-> 2]}
\* the key of list.json under which the files of a subdirectory are listed:
\* the name of the subdirectory
KeyOf(d) == IF d = SUBROOT THEN ROOT ELSE d
\* getRandomImage(directory = null)
NoDir == 0
\* characters of a token: 1 and 2 are letters, SP is a blank
SP == 5
\* the token query parameter of GET /update; << >> is a missing or empty one
Tokens == {<< >>, <<SP>>, <<1>>, <<1, SP>>, <<2>>}
\* the callers of safeWriteJson the model follows; caller w writes the data w
Writers == {1, 2}
\* `maxRetries` of safeWriteJson
writeMaxRetries == 5
\* the client addresses getClientIP can return
IPs == {1, 2}
\* REQUEST_LIMIT (200 in api.js)
REQUEST_LIMIT == 2
\* the window in steps of the model's clock, which advances by MsPerSec
WindowTicks == 2
\* WINDOW_SIZE (1000 in api.js, where the clock has millisecond steps)
WINDOW_SIZE == WindowTicks * MsPerSec
\* MAX_CLIENTS (1000 in api.js)
MAX_CLIENTS == 1
\* the directory arguments of getRandomImage
DirArgs == {ROOT, 1, 2, DOT}
\* the (directory, filename) arguments of findSpecificImage; a filename is the
\* rest of the request path, split at '/'
FindArgs == {<<ROOT, <<1>> >>, <<ROOT, <<2>> >>, <<1, <<1>> >>, <<2, <<1>> >>, <<1, <<2>> >>,
             <<DOT, <<1>> >>, <<1, <<DOTDOT, 2, 1>> >>, <<2, <<DOTDOT, 1>> >>}

VARIABLES
    enabled,            \* config.cache.enabled
    cfgTTL,             \* config.cache.ttl
    initialized,        \* initialize(config) has run
    redisClient,        \* this.redisClient: 0 is null, else a client id
    isRedisConnected,
    isReconnecting,
    retryCount,
    retryTimeout,       \* TRUE when this.retryTimeout holds a timer handle
    cleanupInterval,    \* TRUE when the sweep interval is running
    mapCache,           \* key -> value, 0 when the key is absent
    mapCacheTTL,        \* key -> expiry time in ms, 0 when the key is absent
    clients,            \* client id -> [st, lis]: library state, listeners attached
    timers,             \* number of reconnect timers pending in the event loop
    co,                 \* a connectRedis call is suspended at `await disconnect()`
    closing,            \* close() is suspended at its await: "no", "quit", "disc"
    inflight,           \* commands issued on a client and not yet settled
    redisStore,         \* the external cache: key -> JSON text, 0 when absent
    now,                \* Date.now()
    last,               \* the call or event of the step just taken (history)
    written,            \* key -> [v, exp] of the last local set still in force (history)
    fileCache,          \* the Map of cacheGetFileInfo in insertion order: [path, info]
    lruLast,            \* the cacheGetFileInfo call just made (history)
    recency,            \* the paths looked up, least recently used first (history)
    disk,               \* the image files that exist under imgDir
    listJson,           \* the persisted document list.json
    builds,             \* the runs of generateListJson and of the write that follows
    imageList,          \* api.js `imageList`: the loaded document
    imageDetails,       \* api.js `imageDetails`: the loaded records
    loader,             \* the run of loadImageList in progress
    lastLoad,           \* the <<imageList, imageDetails>> the last completed load produced (history)
    idx,                \* the getRandomImage / findSpecificImage call just made (history)
    fileExistsCache,    \* api.js `fileExistsCache` for the file of the exact request
    req,                \* the request handleApiRequest is serving or has just served
    validToken,         \* process.env.UPDATE_TOKEN as a string of characters, << >> when unset
    upd,                \* the last GET /update request and its answer (history)
    writers,            \* the calls of safeWriteJson(filePath, data) in progress
    wfiles,             \* the lock file, the temp file and the file at filePath
    requestCounts,      \* api.js `requestCounts`: per client, the times of its recorded requests
    accepted,           \* per client, the times of all requests checkRateLimit accepted (history)
    rl                  \* the checkRateLimit call just made and its answer (history)

cmVars == <<enabled, cfgTTL, initialized, redisClient, isRedisConnected, isReconnecting,
            retryCount, retryTimeout, cleanupInterval, mapCache, mapCacheTTL, clients,
            timers, co, closing, inflight, redisStore, now, last, written>>
lruVars == <<fileCache, lruLast, recency>>
apiVars == <<disk, listJson, builds, imageList, imageDetails, loader, lastLoad, idx,
             fileExistsCache, req>>
updVars == <<validToken, upd, writers, wfiles>>
rlVars == <<requestCounts, accepted, rl>>
vars == <<cmVars, lruVars, apiVars, updVars, rlVars>>

\* ----------------------------------------------------------- conversions
\* JSON.stringify / JSON.parse of a cache record: the text is another object
Stringify(v) == v + 10
Parse(s) == s - 10

EmptyMap == [k \in Keys |-> 0]

\* no local set is in force
WrittenNone == [k \in Keys |-> [v |-> 0, exp |-> 0]]

\* ------------------------------------------------- the manager as a record
S == [redisClient |-> redisClient, isRedisConnected |-> isRedisConnected,
      isReconnecting |-> isReconnecting, retryCount |-> retryCount,
      retryTimeout |-> retryTimeout, mapCache |-> mapCache,
      mapCacheTTL |-> mapCacheTTL, clients |-> clients, timers |-> timers]

Put(s) ==
    /\ redisClient' = s.redisClient
    /\ isRedisConnected' = s.isRedisConnected
    /\ isReconnecting' = s.isReconnecting
    /\ retryCount' = s.retryCount
    /\ retryTimeout' = s.retryTimeout
    /\ mapCache' = s.mapCache
    /\ mapCacheTTL' = s.mapCacheTTL
    /\ clients' = s.clients
    /\ timers' = s.timers

\* clearTimeout(this.retryTimeout); this.retryTimeout = null
ClearRetryTimeout(s) ==
    IF s.retryTimeout
    THEN [s EXCEPT !.retryTimeout = FALSE,
                   !.timers = IF @ > 0 THEN @ - 1 ELSE 0]
    ELSE s

\* scheduleReconnect without the test of the retry cap
ScheduleReconnectUncapped(s) ==
    IF s.isReconnecting
    THEN s
    ELSE LET s1 == ClearRetryTimeout(s)
         IN [s1 EXCEPT !.retryCount = @ + 1,
                       !.retryTimeout = TRUE,
                       !.timers = @ + 1]

ScheduleReconnect(s) ==
    IF s.isReconnecting \/ s.retryCount >= maxRetries
    THEN s
    ELSE LET s1 == ClearRetryTimeout(s)
         IN [s1 EXCEPT !.retryCount = @ + 1,
                       !.retryTimeout = TRUE,
                       !.timers = @ + 1]

ClearMapCache(s) == [s EXCEPT !.mapCache = EmptyMap, !.mapCacheTTL = EmptyMap]

\* client.disconnect() once the listeners are gone: no handler runs
Disconnected(cl) ==
    [cl EXCEPT !.lis = FALSE,
               !.st = IF @ = "ready" THEN "closed"
                      ELSE IF @ = "connecting" THEN "aborted" ELSE @]

\* HandleRedisError that leaves the failed client in place
HandleRedisErrorKeepClient(s) ==
    ScheduleReconnect([s EXCEPT !.isRedisConnected = FALSE])

HandleRedisError(s) ==
    LET s1 == [s EXCEPT !.isRedisConnected = FALSE]
        s2 == IF s1.redisClient # 0
              THEN [s1 EXCEPT !.clients[s1.redisClient] = Disconnected(@),
                              !.redisClient = 0]
              ELSE s1
    IN ScheduleReconnect(s2)

\* the 'connect' handler without the clearMapCache() call
OnConnectKeepMap(s) ==
    ClearRetryTimeout([s EXCEPT !.isRedisConnected = TRUE,
                                !.retryCount = 0,
                                !.isReconnecting = FALSE])

\* the 'connect' handler
OnConnect(s) ==
    ClearRetryTimeout(ClearMapCache(
        [s EXCEPT !.isRedisConnected = TRUE,
                  !.retryCount = 0,
                  !.isReconnecting = FALSE]))

OnError(s) == HandleRedisError([s EXCEPT !.isReconnecting = FALSE])

OnEnd(s) ==
    ScheduleReconnect([s EXCEPT !.isRedisConnected = FALSE,
                                !.isReconnecting = FALSE])

\* the catch block around `await this.redisClient.connect()`
ConnectCatch(s) == HandleRedisError([s EXCEPT !.isReconnecting = FALSE])

\* ------------------------------------------------------------ connectRedis
\* a client object nothing refers to any more can be reused for createClient
FreeSlots(s) ==
    {c \in ClientIds : /\ s.clients[c].st = "closed"
                       /\ c # s.redisClient
                       /\ \A r \in inflight : r.c # c}

CanCreate(s) == FreeSlots(s) # {}

\* redis.createClient(...), the four .on(...) registrations and the call of connect()
CreateClient(s) ==
    LET c == CHOOSE x \in FreeSlots(s) : \A y \in FreeSlots(s) : x <= y
    IN [s EXCEPT !.clients[c] = [st |-> "connecting", lis |-> TRUE],
                 !.redisClient = c]

\* connectRedis without its first early return (caching disabled)
ConnectGuardEnabledOrNot(s) ==
    /\ ~s.isReconnecting
    /\ s.retryCount < maxRetries

\* the three early returns of connectRedis
ConnectGuard(s) ==
    /\ enabled
    /\ ~s.isReconnecting
    /\ s.retryCount < maxRetries

\* `await this.redisClient.disconnect()` on the previous client, whose listeners
\* are still attached: a ready client emits 'end' inside disconnect(); a client
\* that is still connecting emits it or throws, depending on the library
\* (endEmitted); a closed one throws, which the inner catch ignores
DisconnectPrevious(s, endEmitted) ==
    LET c == s.redisClient
        cl == s.clients[c]
    IN IF cl.st = "ready"
       THEN LET s1 == [s EXCEPT !.clients[c].st = "closed"]
            IN IF cl.lis THEN OnEnd(s1) ELSE s1
       ELSE IF cl.st = "connecting"
       THEN LET s1 == [s EXCEPT !.clients[c].st = "aborted"]
            IN IF cl.lis /\ endEmitted THEN OnEnd(s1) ELSE s1
       ELSE s

\* connectRedis() up to its first await that yields.  The result is the manager
\* record and whether the call is left suspended at `await disconnect()`.
ConnectRedis(s, endEmitted) ==
    IF ~ConnectGuard(s)
    THEN [s |-> s, co |-> FALSE]
    ELSE LET s1 == [s EXCEPT !.isReconnecting = TRUE]
         IN IF s1.redisClient # 0
            THEN [s |-> DisconnectPrevious(s1, endEmitted), co |-> TRUE]
            ELSE [s |-> CreateClient(s1), co |-> FALSE]

\* whether connectRedis(s) would reach createClient
WouldCreate(s) == ConnectGuard(s) /\ s.redisClient = 0

\* a promise continuation is queued: it runs before any timer, I/O event or request
Urgent ==
    \/ co
    \/ closing = "disc"
    \/ \E r \in inflight : clients[r.c].st \in {"closed", "aborted"}

NoCall == [op |-> "none", key |-> 0, val |-> 0, ttl |-> NoArg, res |-> 0,
           conn |-> FALSE, cli |-> FALSE, rec |-> FALSE, called |-> FALSE,
           failed |-> FALSE, done |-> FALSE, src |-> "none"]

\* the history record of a call or event, with the flags of the state it starts in
Step(op, k, v, ttl) ==
    [op |-> op, key |-> k, val |-> v, ttl |-> ttl, res |-> 0,
     conn |-> isRedisConnected, cli |-> redisClient # 0, rec |-> isReconnecting,
     called |-> FALSE, failed |-> FALSE, done |-> FALSE, src |-> "none"]

\* a step the history does not record
NoFacade == last' = NoCall

\* ------------------------------------------------ documents and the index
\* list.json as a reader finds it: "missing", "empty" (opened for writing and
\* not yet written), "invalid" (not JSON), or "doc" with the files it lists
NoDoc(kind) == [kind |-> kind, files |-> {}]
Doc(files) == [kind |-> "doc", files |-> files]

\* the default `{}` safeReadJson returns, and the initial imageList
EmptyObject == NoDoc("default")

\* safeReadJson(listPath, {}): the default unless the file holds valid JSON
SafeReadJson(doc) == IF doc.kind = "doc" THEN doc ELSE EmptyObject

\* one record of convertListToDetails; a path is the sequence of its segments
Detail(f) ==
    [name |-> f.name, directory |-> f.dir,
     path |-> IF f.dir = ROOT THEN <<f.name>> ELSE <<f.dir, f.name>>]

\* convertListToDetails(listData); the array is kept as the set of its records,
\* whose paths are distinct
ConvertListToDetails(list) == {Detail(f) : f \in list.files}

\* null, and the TypeError of using an undefined record
NoImage == [name |-> 0, directory |-> 0, path |-> << >>]
Threw == [name |-> -1, directory |-> 0, path |-> << >>]

\* loadImageList lines 120-133: images-details.json is absent (its default is
\* []), so a non-empty list is converted
LoadedDetails(list) == IF list.kind = "doc" THEN ConvertListToDetails(list) ELSE {}

\* path.normalize on segments: '.' is dropped, '..' removes the segment before it
RECURSIVE Normalize(_, _)
Normalize(segs, acc) ==
    IF segs = << >> THEN acc
    ELSE LET h == Head(segs)
             t == Tail(segs)
         IN IF h = DOT THEN Normalize(t, acc)
            ELSE IF h = DOTDOT
                 THEN IF acc # << >> /\ acc[Len(acc)] # DOTDOT
                      THEN Normalize(t, SubSeq(acc, 1, Len(acc) - 1))
                      ELSE Normalize(t, Append(acc, DOTDOT))
                 ELSE Normalize(t, Append(acc, h))

\* path.join(directory, filename)
PathJoin(directory, filename) ==
    LET n == Normalize(<<directory>> \o filename, << >>)
    IN IF n = << >> THEN <<DOT>> ELSE n

\* img.path.startsWith(directory + '/')
StartsWithDir(path, directory) == Len(path) > 1 /\ path[1] = directory

\* getRandomImage without its filter
FilteredAll(details, directory) == details

\* the filter of getRandomImage
Filtered(details, directory) ==
    IF directory = NoDir THEN details
    ELSE {img \in details :
            IF directory = ROOT THEN img.directory = ROOT
            ELSE img.directory = directory \/ StartsWithDir(img.path, directory)}

\* getRandomImage without its two empty-list returns: filtered[NaN] is
\* undefined, and logging its name throws
GetRandomImageUnguarded(details, directory) ==
    IF Filtered(details, directory) = {} THEN {Threw}
    ELSE Filtered(details, directory)

\* getRandomImage(directory): the records a draw can return
GetRandomImage(details, directory) ==
    IF details = {} THEN {NoImage}
    ELSE IF Filtered(details, directory) = {} THEN {NoImage}
    ELSE Filtered(details, directory)

\* findSpecificImage(directory, filename)
FindSpecificImage(details, directory, filename) ==
    LET targetPath == PathJoin(directory, filename)
        found == {img \in details :
                    IF directory = ROOT
                    THEN img.directory = ROOT /\ <<img.name>> = filename
                    ELSE img.path = targetPath}
    IN IF found = {} THEN NoImage ELSE CHOOSE img \in found : TRUE

\* the file a record's _fullPath names
FileOf(img) == [dir |-> img.directory, name |-> img.name]

\* the cacheData of a record, and the file its _fullPath names
CacheData(img) == IF img.directory = ROOT THEN 3 ELSE img.directory
CachedFile(v) == [dir |-> IF v = 3 THEN ROOT ELSE v, name |-> 1]

\* the requests the model sends: /api, /api/1, /api/2 and /api/1/1; `parts`
\* is the path without 'api'
ReqParts == {<< >>, <<1>>, <<2>>, <<1, 1>>}

\* isRandomRequest with the bound of a request for a directory
IsRandomRequestNoParts(parts) == Len(parts) < 1

\* isRandomRequest(parts)
IsRandomRequest(parts) == Len(parts) < 2

\* generateCacheKey(req, parts): 0 is null; `api:<path>:json` is key 1 and
\* `api:<path>:file` is key 2 of the one exact path requested
GenerateCacheKey(parts, isJson) ==
    IF IsRandomRequest(parts) THEN 0 ELSE IF isJson THEN 1 ELSE 2

\* fileExistsCache.clear()
NoFileChecks == [f \in FileUniverse |-> "none"]

NoRequest == [pc |-> "idle", parts |-> << >>, isJson |-> FALSE, key |-> 0, hit |-> 0,
              img |-> NoImage, status |-> 0, calls |-> {}, stale |-> FALSE,
              empty |-> FALSE, body |-> {}]
\* the fields of the JSON document of a 200 response: `cached`, which is the
\* cacheData object stored by an earlier request, or imageInfo
JsonBody(cacheHit) ==
    {"name", "size", "uploadtime", "path", "processingTime"}
        \cup (IF cacheHit THEN {"_fullPath", "cached_at"} ELSE {})

\* result: the entries of `result` as (key, filename) pairs; order: the keys
\* added to `result` after '_root', in insertion order; pending: the counter
\* of entries not yet handled; reads: the subdirectories whose fs.readdir has
\* not called back; called: the invocations of `callback`
IdleBuild == [pc |-> "idle", result |-> {}, order |-> << >>, pending |-> 0, reads |-> {},
              called |-> 0]
\* a callback that calls back whatever the counter says
AllHandledAlways(pending) == TRUE
\* `--pending === 0`, applied to the counter after the decrement
AllHandled(pending) == pending = 0
\* JSON.stringify(data, null, 2): the keys in insertion order with their entries
ListText(build) == <<<<ROOT>> \o build.order, build.result>>
IdleLoader == [pc |-> "idle", newImageList |-> EmptyObject]
NoIndexCall == [op |-> "none", directory |-> NoDir, filename |-> << >>, res |-> NoImage]

\* String.prototype.trim()
RECURSIVE Trim(_)
Trim(t) ==
    IF t = << >> THEN t
    ELSE IF Head(t) = SP THEN Trim(Tail(t))
    ELSE IF t[Len(t)] = SP THEN Trim(SubSeq(t, 1, Len(t) - 1))
    ELSE t

\* the token test of GET /update passes
Authorized(token) == token # << >> /\ Trim(token) = Trim(validToken)

NoUpdate == [token |-> << >>, status |-> 0]

\* i: the loop counter; lost: the iterations that found the lock file;
\* res: "true", "false" or "throw" once the call has ended
IdleWriter == [pc |-> "idle", i |-> 0, lost |-> 0, res |-> "none"]
\* the lock file exists; the data in the temp file and in the file at
\* filePath, 0 when the temp file does not exist
NoWrites == [lock |-> FALSE, temp |-> 0, target |-> 0]

NoLookup == [path |-> 0, hit |-> FALSE, res |-> 0, evicted |-> {}, before |-> << >>]

\* a client requestCounts has no key for, and the array of a client it has
NoRecord == [has |-> FALSE, times |-> << >>]
Record(times) == [has |-> TRUE, times |-> times]

NoCheck == [ip |-> 0, ok |-> FALSE, at |-> 0, done |-> FALSE]

\* the cache manager after construction, and the empty LRU map
InitCaches ==
    /\ enabled \in BOOLEAN
    /\ cfgTTL \in CfgTTLs
    /\ initialized = FALSE
    /\ redisClient = 0
    /\ isRedisConnected = FALSE
    /\ isReconnecting = FALSE
    /\ retryCount = 0
    /\ retryTimeout = FALSE
    /\ cleanupInterval = FALSE
    /\ mapCache = EmptyMap
    /\ mapCacheTTL = EmptyMap
    /\ clients = [c \in ClientIds |-> [st |-> "closed", lis |-> FALSE]]
    /\ timers = 0
    /\ co = FALSE
    /\ closing = "no"
    /\ inflight = {}
    /\ redisStore = EmptyMap
    /\ now = 0
    /\ last = NoCall
    /\ written = WrittenNone
    /\ fileCache = << >>
    /\ lruLast = NoLookup
    /\ recency = << >>
    /\ upd = NoUpdate
    /\ writers = [w \in Writers |-> IdleWriter]
    /\ wfiles = NoWrites
    /\ requestCounts = [c \in IPs |-> NoRecord]
    /\ accepted = [c \in IPs |-> << >>]
    /\ rl = NoCheck

Init ==
    /\ InitCaches
    /\ validToken = <<1>>
    /\ disk = FileUniverse
    /\ listJson = NoDoc("missing")
    /\ builds = [b \in BuildIds |-> IdleBuild]
    /\ imageList = EmptyObject
    /\ imageDetails = {}
    /\ loader = IdleLoader
    /\ lastLoad = <<EmptyObject, {}>>
    /\ idx = NoIndexCall
    /\ fileExistsCache = NoFileChecks
    /\ req = NoRequest

\* initialize(config)
Initialize ==
    /\ ~initialized
    /\ initialized' = TRUE
    /\ IF ~enabled
       THEN UNCHANGED <<redisClient, isRedisConnected, isReconnecting, retryCount,
                        retryTimeout, mapCache, mapCacheTTL, clients, timers,
                        cleanupInterval, co>>
       ELSE /\ cleanupInterval' = TRUE
            /\ LET r == ConnectRedis(S, FALSE)
               IN Put(r.s) /\ co' = r.co
    /\ NoFacade
    /\ UNCHANGED <<lruVars, updVars, rlVars, apiVars, enabled, cfgTTL, closing, inflight, redisStore, now, written>>

\* the setTimeout callback of scheduleReconnect
TimerFire ==
    /\ timers > 0
    /\ ~Urgent
    /\ LET s0 == [S EXCEPT !.timers = @ - 1, !.retryTimeout = FALSE]
       IN \E e \in BOOLEAN :
            /\ WouldCreate(s0) => CanCreate(s0)
            /\ LET r == ConnectRedis(s0, e)
               IN Put(r.s) /\ co' = r.co
    /\ NoFacade
    /\ UNCHANGED <<lruVars, updVars, rlVars, apiVars, enabled, cfgTTL, initialized, cleanupInterval, closing, inflight,
                   redisStore, now, written>>

\* connectRedis resumed after `await this.redisClient.disconnect()`
ConnectResume ==
    /\ co
    /\ LET s0 == [S EXCEPT !.redisClient = 0]
       IN /\ CanCreate(s0)
          /\ Put(CreateClient(s0))
    /\ co' = FALSE
    /\ NoFacade
    /\ UNCHANGED <<lruVars, updVars, rlVars, apiVars, enabled, cfgTTL, initialized, cleanupInterval, closing, inflight,
                   redisStore, now, written>>

ResetRetryCountOf(s) ==
    ClearRetryTimeout([s EXCEPT !.retryCount = 0, !.isReconnecting = FALSE])

\* resetRetryCount()
ResetRetryCount ==
    /\ initialized
    /\ ~Urgent
    /\ Put(ResetRetryCountOf(S))
    /\ last' = [Step("resetRetryCount", 0, 0, NoArg) EXCEPT
                  !.res = retryCount, !.done = TRUE]
    /\ UNCHANGED <<lruVars, updVars, rlVars, apiVars, enabled, cfgTTL, initialized, cleanupInterval, co, closing, inflight,
                   redisStore, now, written>>

\* manualReconnect()
ManualReconnect ==
    /\ initialized
    /\ ~Urgent
    /\ LET s0 == ResetRetryCountOf(S)
       IN \E e \in BOOLEAN :
            /\ WouldCreate(s0) => CanCreate(s0)
            /\ LET r == ConnectRedis(s0, e)
               IN Put(r.s) /\ co' = r.co
    /\ last' = [Step("manualReconnect", 0, 0, NoArg) EXCEPT
                  !.res = retryCount, !.done = TRUE]
    /\ UNCHANGED <<lruVars, updVars, rlVars, apiVars, enabled, cfgTTL, initialized, cleanupInterval, closing, inflight,
                   redisStore, now, written>>

\* --------------------------------------------------- events of the library
\* 'connect' of a client whose connect() is pending
ConnectOk(c) ==
    /\ clients[c].st = "connecting"
    /\ ~Urgent
    /\ LET s0 == [S EXCEPT !.clients[c].st = "ready"]
       IN Put(IF clients[c].lis THEN OnConnect(s0) ELSE s0)
    /\ written' = IF clients[c].lis THEN WrittenNone ELSE written
    /\ last' = IF clients[c].lis
               THEN [Step("connect", 0, 0, NoArg) EXCEPT
                       !.res = (IF mapCache # EmptyMap THEN 1 ELSE 0)
                               + (IF retryTimeout THEN 2 ELSE 0),
                       !.done = TRUE]
               ELSE NoCall
    /\ UNCHANGED <<lruVars, updVars, rlVars, apiVars, enabled, cfgTTL, initialized, cleanupInterval, co, closing, inflight,
                   redisStore, now>>

\* the connection attempt fails: 'error' is emitted, then connect() rejects
ConnectFail(c) ==
    /\ clients[c].st = "connecting"
    /\ ~Urgent
    /\ LET s0 == [S EXCEPT !.clients[c].st = "closed"]
           s1 == IF clients[c].lis THEN OnError(s0) ELSE s0
       IN Put(ConnectCatch(s1))
    /\ UNCHANGED written
    /\ NoFacade
    /\ UNCHANGED <<lruVars, updVars, rlVars, apiVars, enabled, cfgTTL, initialized, cleanupInterval, co, closing, inflight,
                   redisStore, now>>

\* a client that was disconnected while connecting still gets its socket:
\* 'connect' is emitted to whatever listeners are left
AbortedOk(c) ==
    /\ clients[c].st = "aborted"
    /\ ~Urgent
    /\ LET s0 == [S EXCEPT !.clients[c] = [st |-> "closed", lis |-> FALSE]]
       IN Put(IF clients[c].lis THEN OnConnect(s0) ELSE s0)
    /\ written' = IF clients[c].lis THEN WrittenNone ELSE written
    /\ last' = IF clients[c].lis
               THEN [Step("connect", 0, 0, NoArg) EXCEPT
                       !.res = (IF mapCache # EmptyMap THEN 1 ELSE 0)
                               + (IF retryTimeout THEN 2 ELSE 0),
                       !.done = TRUE]
               ELSE NoCall
    /\ UNCHANGED <<lruVars, updVars, rlVars, apiVars, enabled, cfgTTL, initialized, cleanupInterval, co, closing, inflight,
                   redisStore, now>>

\* the connect() promise of a client disconnected while connecting rejects
AbortedFail(c) ==
    /\ clients[c].st = "aborted"
    /\ ~Urgent
    /\ LET s0 == [S EXCEPT !.clients[c] = [st |-> "closed", lis |-> FALSE]]
           s1 == IF clients[c].lis THEN OnError(s0) ELSE s0
       IN Put(ConnectCatch(s1))
    /\ UNCHANGED written
    /\ NoFacade
    /\ UNCHANGED <<lruVars, updVars, rlVars, apiVars, enabled, cfgTTL, initialized, cleanupInterval, co, closing, inflight,
                   redisStore, now>>

\* the connect() promise of a client disconnected while connecting never settles
AbortedDrop(c) ==
    /\ clients[c].st = "aborted"
    /\ ~Urgent
    /\ clients' = [clients EXCEPT ![c] = [st |-> "closed", lis |-> FALSE]]
    /\ UNCHANGED written
    /\ NoFacade
    /\ UNCHANGED <<lruVars, updVars, rlVars, apiVars, enabled, cfgTTL, initialized, redisClient, isRedisConnected,
                   isReconnecting, retryCount, retryTimeout, cleanupInterval, mapCache,
                   mapCacheTTL, timers, co, closing, inflight, redisStore, now>>

\* 'error' of an established connection (the socket is gone: reconnectStrategy false)
ClientError(c) ==
    /\ clients[c].st = "ready"
    /\ clients[c].lis
    /\ ~Urgent
    /\ Put(OnError([S EXCEPT !.clients[c].st = "closed"]))
    /\ UNCHANGED written
    /\ NoFacade
    /\ UNCHANGED <<lruVars, updVars, rlVars, apiVars, enabled, cfgTTL, initialized, cleanupInterval, co, closing, inflight,
                   redisStore, now>>

\* 'end' of an established connection
ClientEnd(c) ==
    /\ clients[c].st = "ready"
    /\ clients[c].lis
    /\ ~Urgent
    /\ Put(OnEnd([S EXCEPT !.clients[c].st = "closed"]))
    /\ UNCHANGED written
    /\ NoFacade
    /\ UNCHANGED <<lruVars, updVars, rlVars, apiVars, enabled, cfgTTL, initialized, cleanupInterval, co, closing, inflight,
                   redisStore, now>>

\* ---------------------------------------------------------------- the facade
\* UseRedis without the isRedisConnected test
UseRedisClientOnly(s) == s.redisClient # 0 /\ ~s.isReconnecting

\* the test that guards every use of the external client
UseRedis(s) == s.isRedisConnected /\ s.redisClient # 0 /\ ~s.isReconnecting

\* const cacheTTL = ttl || this.config.cache.ttl
CacheTTL(ttl) == IF ttl \notin {NoArg, 0} THEN ttl ELSE cfgTTL

\* the Map part of get() without the expiry test
MapGetResAnyAge(s, k) == s.mapCache[k]

\* the Map part of get(): the value returned (0 is null)
MapGetRes(s, k) ==
    IF s.mapCache[k] # 0 /\ (s.mapCacheTTL[k] = 0 \/ now < s.mapCacheTTL[k])
    THEN s.mapCache[k]
    ELSE 0

\* the Map part of get(): an expired entry is deleted from both maps
MapGetState(s, k) ==
    IF s.mapCache[k] # 0 /\ ~(s.mapCacheTTL[k] = 0 \/ now < s.mapCacheTTL[k])
    THEN [s EXCEPT !.mapCache[k] = 0, !.mapCacheTTL[k] = 0]
    ELSE s

\* MapSet with the expiry computed in seconds instead of milliseconds
MapSetSeconds(s, k, v, cacheTTL) ==
    [s EXCEPT !.mapCache[k] = v, !.mapCacheTTL[k] = now + cacheTTL]

\* the Map part of set()
MapSet(s, k, v, cacheTTL) ==
    [s EXCEPT !.mapCache[k] = v, !.mapCacheTTL[k] = now + cacheTTL * MsPerSec]

\* the Map part of del() that forgets the TTL map
MapDelValueOnly(s, k) == [s EXCEPT !.mapCache[k] = 0]

\* the Map part of del()
MapDel(s, k) == [s EXCEPT !.mapCache[k] = 0, !.mapCacheTTL[k] = 0]

\* a command handed to the client, with the flags the facade saw when it issued
\* it; the ttl of a set is the cacheTTL computed before the call
Command(op, k, v, ttl) ==
    [op |-> op, key |-> k, val |-> v, ttl |-> ttl, c |-> redisClient,
     conn |-> isRedisConnected, rec |-> isReconnecting]

\* the history record of the step that settles command r
Settled(r) ==
    [Step(r.op, r.key, r.val, r.ttl) EXCEPT
       !.conn = r.conn, !.cli = TRUE, !.rec = r.rec, !.called = TRUE, !.done = TRUE]

\* the call is handed to the external client and the caller awaits the reply
Issue(op, k, v, ttl) ==
    /\ Cardinality(inflight) < MaxInflight
    /\ Command(op, k, v, ttl) \notin inflight
    /\ inflight' = inflight \cup {Command(op, k, v, ttl)}
    /\ last' = [Step(op, k, v, ttl) EXCEPT !.called = TRUE]
    /\ UNCHANGED <<redisClient, isRedisConnected, isReconnecting, retryCount,
                   retryTimeout, mapCache, mapCacheTTL, clients, timers, written>>

\* get(key), up to its first await or to its return
Get(k) ==
    /\ initialized
    /\ \/ /\ ~enabled
          /\ last' = [Step("get", k, 0, NoArg) EXCEPT !.done = TRUE]
          /\ UNCHANGED <<redisClient, isRedisConnected, isReconnecting, retryCount,
                         retryTimeout, mapCache, mapCacheTTL, clients, timers, written,
                         inflight>>
       \/ /\ enabled
          /\ UseRedis(S)
          /\ Issue("get", k, 0, NoArg)
       \/ /\ enabled
          /\ ~UseRedis(S)
          /\ Put(MapGetState(S, k))
          /\ last' = [Step("get", k, 0, NoArg) EXCEPT !.res = MapGetRes(S, k),
                                                  !.done = TRUE, !.src = "map"]
          /\ UNCHANGED <<written, inflight>>
    /\ UNCHANGED <<lruVars, updVars, rlVars, apiVars, enabled, cfgTTL, initialized, cleanupInterval, co, closing,
                   redisStore, now>>

\* set(key, value, ttl), up to its first await or to its return
Set(k, v, ttl) ==
    /\ initialized
    /\ \/ /\ ~enabled \/ CacheTTL(ttl) <= 0
          /\ last' = [Step("set", k, v, ttl) EXCEPT !.done = TRUE]
          /\ UNCHANGED <<redisClient, isRedisConnected, isReconnecting, retryCount,
                         retryTimeout, mapCache, mapCacheTTL, clients, timers, written,
                         inflight>>
       \/ /\ enabled
          /\ CacheTTL(ttl) > 0
          /\ UseRedis(S)
          /\ Issue("set", k, v, CacheTTL(ttl))
       \/ /\ enabled
          /\ CacheTTL(ttl) > 0
          /\ ~UseRedis(S)
          /\ Put(MapSet(S, k, v, CacheTTL(ttl)))
          /\ written' = [written EXCEPT
                           ![k] = [v |-> v, exp |-> now + CacheTTL(ttl) * MsPerSec]]
          /\ last' = [Step("set", k, v, ttl) EXCEPT !.done = TRUE, !.src = "map"]
          /\ UNCHANGED inflight
    /\ UNCHANGED <<lruVars, updVars, rlVars, apiVars, enabled, cfgTTL, initialized, cleanupInterval, co, closing,
                   redisStore, now>>

\* del(key), up to its first await or to its return
Del(k) ==
    /\ initialized
    /\ \/ /\ ~enabled
          /\ last' = [Step("del", k, 0, NoArg) EXCEPT !.done = TRUE]
          /\ UNCHANGED <<redisClient, isRedisConnected, isReconnecting, retryCount,
                         retryTimeout, mapCache, mapCacheTTL, clients, timers, written,
                         inflight>>
       \/ /\ enabled
          /\ UseRedis(S)
          /\ Issue("del", k, 0, NoArg)
       \/ /\ enabled
          /\ ~UseRedis(S)
          /\ Put(MapDel(S, k))
          /\ written' = [written EXCEPT ![k] = [v |-> 0, exp |-> 0]]
          /\ last' = [Step("del", k, 0, NoArg) EXCEPT
                        !.res = IF mapCache[k] # 0 THEN 1 ELSE 0,
                        !.done = TRUE, !.src = "map"]
          /\ UNCHANGED inflight
    /\ UNCHANGED <<lruVars, updVars, rlVars, apiVars, enabled, cfgTTL, initialized, cleanupInterval, co, closing,
                   redisStore, now>>

\* clear(), up to its first await or to its return
Clear ==
    /\ initialized
    /\ \/ /\ ~enabled
          /\ last' = [Step("clear", 0, 0, NoArg) EXCEPT !.done = TRUE]
          /\ UNCHANGED <<redisClient, isRedisConnected, isReconnecting, retryCount,
                         retryTimeout, mapCache, mapCacheTTL, clients, timers, written,
                         inflight>>
       \/ /\ enabled
          /\ UseRedis(S)
          /\ Issue("clear", 0, 0, NoArg)
       \/ /\ enabled
          /\ ~UseRedis(S)
          /\ Put(ClearMapCache(S))
          /\ written' = WrittenNone
          /\ last' = [Step("clear", 0, 0, NoArg) EXCEPT !.done = TRUE, !.src = "map"]
          /\ UNCHANGED inflight
    /\ UNCHANGED <<lruVars, updVars, rlVars, apiVars, enabled, cfgTTL, initialized, cleanupInterval, co, closing,
                   redisStore, now>>

\* what the command does to the external cache when the server executes it
Applied(r) ==
    IF r.op = "set" THEN [redisStore EXCEPT ![r.key] = Stringify(r.val)]
    ELSE IF r.op = "del" THEN [redisStore EXCEPT ![r.key] = 0]
    ELSE IF r.op = "clear" THEN EmptyMap
    ELSE redisStore

\* MapPath where a set that failed on the external client returns from its catch
MapPathSkipSet(r, s) ==
    IF r.op = "get" THEN MapGetState(s, r.key)
    ELSE IF r.op = "set" THEN s
    ELSE IF r.op = "del" THEN MapDel(s, r.key)
    ELSE ClearMapCache(s)

\* the rest of get/set/del/clear once the external client is out of the way:
\* the Map part, on manager record s
MapPath(r, s) ==
    IF r.op = "get" THEN MapGetState(s, r.key)
    ELSE IF r.op = "set" THEN MapSet(s, r.key, r.val, CacheTTL(r.ttl))
    ELSE IF r.op = "del" THEN MapDel(s, r.key)
    ELSE ClearMapCache(s)

MapPathRes(r, s, redisDeleted) ==
    IF r.op = "get" THEN MapGetRes(s, r.key)
    ELSE IF r.op = "del" THEN (IF redisDeleted \/ s.mapCache[r.key] # 0 THEN 1 ELSE 0)
    ELSE 0

WrittenAfter(r) ==
    IF r.op = "set"
    THEN [written EXCEPT ![r.key] = [v |-> r.val,
                                     exp |-> now + CacheTTL(r.ttl) * MsPerSec]]
    ELSE IF r.op = "del" THEN [written EXCEPT ![r.key] = [v |-> 0, exp |-> 0]]
    ELSE IF r.op = "clear" THEN WrittenNone
    ELSE written

\* the awaited command resolves
ReplyOk(r) ==
    /\ r \in inflight
    /\ clients[r.c].st = "ready"
    /\ ~Urgent
    /\ inflight' = inflight \ {r}
    /\ redisStore' = Applied(r)
    /\ \/ /\ r.op = "get"
          /\ redisStore[r.key] # 0
          /\ last' = [Settled(r) EXCEPT
                        !.res = Parse(redisStore[r.key]), !.src = "redis"]
          /\ UNCHANGED <<redisClient, isRedisConnected, isReconnecting, retryCount,
                         retryTimeout, mapCache, mapCacheTTL, clients, timers, written>>
       \/ /\ r.op = "set"
          /\ last' = [Settled(r) EXCEPT !.src = "redis"]
          /\ UNCHANGED <<redisClient, isRedisConnected, isReconnecting, retryCount,
                         retryTimeout, mapCache, mapCacheTTL, clients, timers, written>>
       \/ /\ \/ r.op = "get" /\ redisStore[r.key] = 0
             \/ r.op \in {"del", "clear"}
          /\ Put(MapPath(r, S))
          /\ written' = WrittenAfter(r)
          /\ last' = [Settled(r) EXCEPT
                        !.res = MapPathRes(r, S, r.op = "del" /\ redisStore[r.key] # 0),
                        !.src = "map"]
    /\ UNCHANGED <<lruVars, updVars, rlVars, apiVars, enabled, cfgTTL, initialized, cleanupInterval, co, closing, now>>

\* the awaited command rejects: the catch block, then the Map part
ReplyFail(r) ==
    /\ r \in inflight
    /\ \/ clients[r.c].st \in {"closed", "aborted"}
       \/ ~Urgent
    /\ inflight' = inflight \ {r}
    /\ \E applied \in BOOLEAN :
         /\ applied => clients[r.c].st = "ready"
         /\ redisStore' = IF applied THEN Applied(r) ELSE redisStore
    /\ Put(MapPath(r, HandleRedisError(S)))
    /\ written' = WrittenAfter(r)
    /\ last' = [Settled(r) EXCEPT
                  !.res = MapPathRes(r, HandleRedisError(S), FALSE),
                  !.failed = TRUE, !.src = "map"]
    /\ UNCHANGED <<lruVars, updVars, rlVars, apiVars, enabled, cfgTTL, initialized, cleanupInterval, co, closing, now>>

\* ------------------------------------------------------------------- close()
CloseReset(s) ==
    ClearMapCache([s EXCEPT !.redisClient = 0, !.isRedisConnected = FALSE,
                            !.isReconnecting = FALSE, !.retryCount = 0])

\* close() up to `await quit()` / `await disconnect()`, or to its end when there
\* is no client
CloseStart ==
    /\ initialized
    /\ closing = "no"
    /\ ~Urgent
    /\ cleanupInterval' = FALSE
    /\ LET s1 == ClearRetryTimeout(S)
       IN IF s1.redisClient # 0
          THEN /\ Put([s1 EXCEPT !.clients[s1.redisClient] = Disconnected(@)])
               /\ closing' = IF s1.isRedisConnected THEN "quit" ELSE "disc"
               /\ UNCHANGED written
          ELSE /\ Put(CloseReset(s1))
               /\ closing' = "no"
               /\ written' = WrittenNone
    /\ last' = [Step("close", 0, 0, NoArg) EXCEPT !.res = retryCount]
    /\ UNCHANGED <<lruVars, updVars, rlVars, apiVars, enabled, cfgTTL, initialized, co, inflight, redisStore, now>>

\* close() resumed after its await
CloseFinish ==
    /\ closing # "no"
    /\ closing = "quit" => ~Urgent
    /\ Put(CloseReset(S))
    /\ closing' = "no"
    /\ written' = WrittenNone
    /\ last' = [Step("close", 0, 0, NoArg) EXCEPT !.res = retryCount, !.done = TRUE]
    /\ UNCHANGED <<lruVars, updVars, rlVars, apiVars, enabled, cfgTTL, initialized, cleanupInterval, co, inflight,
                   redisStore, now>>

\* ------------------------------------------------------------- time, sweeps
\* Expired with the comparison turned round
ExpiredReversed(s, k) == s.mapCacheTTL[k] # 0 /\ now < s.mapCacheTTL[k]

\* the test of the sweep: now > expireTime
Expired(s, k) == s.mapCacheTTL[k] # 0 /\ now > s.mapCacheTTL[k]

\* cleanExpiredMapCache(), run by the cleanup interval
CleanExpiredMapCache ==
    /\ cleanupInterval
    /\ ~Urgent
    /\ mapCache' = [k \in Keys |-> IF Expired(S, k) THEN 0 ELSE mapCache[k]]
    /\ mapCacheTTL' = [k \in Keys |-> IF Expired(S, k) THEN 0 ELSE mapCacheTTL[k]]
    /\ last' = [Step("sweep", 0, 0, NoArg) EXCEPT
                  !.res = Cardinality({k \in Keys : Expired(S, k)}), !.done = TRUE]
    /\ UNCHANGED <<lruVars, updVars, rlVars, apiVars, enabled, cfgTTL, initialized, redisClient, isRedisConnected,
                   isReconnecting, retryCount, retryTimeout, cleanupInterval, clients,
                   timers, co, closing, inflight, redisStore, now, written>>

\* the clock advances
Tick ==
    /\ ~Urgent
    /\ now < MaxTicks * MsPerSec
    /\ now' = now + MsPerSec
    /\ NoFacade
    /\ UNCHANGED <<lruVars, updVars, rlVars, apiVars, enabled, cfgTTL, initialized, redisClient, isRedisConnected,
                   isReconnecting, retryCount, retryTimeout, cleanupInterval, mapCache,
                   mapCacheTTL, clients, timers, co, closing, inflight, redisStore,
                   written>>

\* an entry of the external cache reaches its TTL (the server's clock)
RedisExpire(k) ==
    /\ redisStore[k] # 0
    /\ ~Urgent
    /\ redisStore' = [redisStore EXCEPT ![k] = 0]
    /\ NoFacade
    /\ UNCHANGED <<lruVars, updVars, rlVars, apiVars, enabled, cfgTTL, initialized, redisClient, isRedisConnected,
                   isReconnecting, retryCount, retryTimeout, cleanupInterval, mapCache,
                   mapCacheTTL, clients, timers, co, closing, inflight, now, written>>

\* ------------------------------------------ the LRU map of cacheGetFileInfo
\* what fs.statSync can report for a file
Infos == {1, 2}

Paths(cache) == {cache[i].path : i \in 1..Len(cache)}

\* fileCache.get(filePath)
MapValue(cache, p) == (CHOOSE i \in 1..Len(cache) : cache[i].path = p)

\* fileCache.delete(filePath)
MapDelete(cache, p) == SelectSeq(cache, LAMBDA e : e.path # p)

\* fileCache.set(filePath, value): a new key goes to the end of the insertion
\* order, an existing key keeps its place
MapInsert(cache, p, info) ==
    IF p \in Paths(cache)
    THEN [i \in 1..Len(cache) |->
            IF cache[i].path = p THEN [path |-> p, info |-> info] ELSE cache[i]]
    ELSE Append(cache, [path |-> p, info |-> info])

\* Refresh that reads the entry and leaves it where it is
RefreshInPlace(cache, p) == cache

\* the hit branch: delete the key and set it again
Refresh(cache, p) ==
    MapInsert(MapDelete(cache, p), p, cache[MapValue(cache, p)].info)

\* the miss branch after the set: over MAX_CACHE, fileCache.keys().next().value goes
Evict(cache) ==
    IF Len(cache) > MAX_CACHE THEN MapDelete(cache, cache[1].path) ELSE cache

\* cacheGetFileInfo(filePath), the file reporting `info` when it is stat'ed
CacheGetFileInfo(p, info) ==
    /\ \/ /\ p \in Paths(fileCache)
          /\ fileCache' = Refresh(fileCache, p)
          /\ lruLast' = [path |-> p, hit |-> TRUE,
                         res |-> fileCache[MapValue(fileCache, p)].info,
                         evicted |-> {}, before |-> fileCache]
       \/ /\ p \notin Paths(fileCache)
          /\ fileCache' = Evict(MapInsert(fileCache, p, info))
          /\ lruLast' = [path |-> p, hit |-> FALSE, res |-> info,
                         evicted |-> (Paths(fileCache) \cup {p}) \ Paths(fileCache'),
                         before |-> fileCache]
    /\ recency' = Append(SelectSeq(recency, LAMBDA q : q # p), p)
    /\ UNCHANGED <<cmVars, apiVars, updVars, rlVars>>

\* ------------------------------------------------------ the image directory
\* a step the index history does not record
NoIndex == idx' = NoIndexCall

\* an image file is removed from imgDir
FileDelete(f) ==
    /\ f \in disk
    /\ disk' = disk \ {f}
    /\ NoIndex
    /\ UNCHANGED <<cmVars, lruVars, updVars, rlVars, listJson, builds, imageList, imageDetails, loader,
                   lastLoad, fileExistsCache, req>>

\* an image file is put into imgDir
FileAdd(f) ==
    /\ f \notin disk
    /\ disk' = disk \cup {f}
    /\ NoIndex
    /\ UNCHANGED <<cmVars, lruVars, updVars, rlVars, listJson, builds, imageList, imageDetails, loader,
                   lastLoad, fileExistsCache, req>>

\* ------------------------------------------- update.js: building list.json
Building == {b \in BuildIds : builds[b].pc # "idle"}

\* generateListJson is called: fs.readdir(imgDir) is issued
GenerateListJson(b) ==
    /\ builds[b].pc = "idle"
    /\ \A c \in BuildIds : c < b => builds[c].pc # "idle"
    /\ builds' = [builds EXCEPT ![b] = [IdleBuild EXCEPT !.pc = "readdir"]]

\* the setInterval callback of the automatic update
AutoUpdate(b) ==
    /\ GenerateListJson(b)
    /\ NoIndex
    /\ UNCHANGED <<cmVars, lruVars, updVars, rlVars, disk, listJson, imageList, imageDetails, loader,
                   lastLoad, fileExistsCache, req>>

\* GET /update?token=...: 403, or generateListJson is called (the answer of an
\* accepted request follows the write; status 0 stands for it)
ManualUpdate(b, token) ==
    /\ IF Authorized(token)
       THEN GenerateListJson(b) /\ upd' = [token |-> token, status |-> 0]
       ELSE UNCHANGED builds /\ upd' = [token |-> token, status |-> 403]
    /\ NoIndex
    /\ UNCHANGED <<cmVars, lruVars, rlVars, validToken, writers, wfiles, disk, listJson, imageList,
                   imageDetails, loader, lastLoad, fileExistsCache, req>>

\* the callback of fs.readdir(imgDir): the files directly under imgDir are
\* recorded, and fs.readdir is issued for every subdirectory
ReaddirRoot(b) ==
    /\ builds[b].pc = "readdir"
    /\ LET dirs == SubDirs \cup {d \in {SUBROOT} : \E f \in disk : f.dir = d}
       IN builds' = [builds EXCEPT ![b] =
                       [@ EXCEPT !.pc = IF dirs = {} THEN "write" ELSE "subdirs",
                                 !.result = {f \in disk : f.dir = ROOT},
                                 !.pending = Cardinality(dirs),
                                 !.reads = dirs,
                                 !.called = IF dirs = {} THEN 1 ELSE 0]]
    /\ NoIndex
    /\ UNCHANGED <<cmVars, lruVars, updVars, rlVars, disk, listJson, imageList, imageDetails, loader,
                   lastLoad, fileExistsCache, req>>

\* the callback of fs.readdir(subdirPath); the last one calls back, and the
\* caller issues fs.writeFile(LIST_FILE, ...)
ReaddirSub(b, d) ==
    /\ builds[b].pc # "idle"
    /\ d \in builds[b].reads
    /\ builds' = [builds EXCEPT ![b] =
                    [@ EXCEPT !.result = {f \in @ : f.dir # KeyOf(d)} \cup
                                           {[dir |-> KeyOf(d), name |-> f.name] :
                                              f \in {g \in disk : g.dir = d}},
                              !.order = IF KeyOf(d) = ROOT THEN @ ELSE Append(@, KeyOf(d)),
                              !.pending = @ - 1,
                              !.reads = @ \ {d},
                              !.called = IF AllHandled(builds[b].pending - 1)
                                         THEN @ + 1 ELSE @,
                              !.pc = IF AllHandled(builds[b].pending - 1) /\ @ = "subdirs"
                                     THEN "write" ELSE @]]
    /\ NoIndex
    /\ UNCHANGED <<cmVars, lruVars, updVars, rlVars, disk, listJson, imageList, imageDetails, loader,
                   lastLoad, fileExistsCache, req>>

\* fs.writeFile opens list.json for writing, which truncates it
WriteOpen(b) ==
    /\ builds[b].pc = "write"
    /\ builds' = [builds EXCEPT ![b].pc = "writing"]
    /\ listJson' = NoDoc("empty")
    /\ NoIndex
    /\ UNCHANGED <<cmVars, lruVars, updVars, rlVars, disk, imageList, imageDetails, loader, lastLoad,
                   fileExistsCache, req>>

\* fs.writeFile has written the document and calls back; two writes in
\* progress on the same file may leave a text that is not JSON
WriteDone(b) ==
    /\ builds[b].pc = "writing"
    /\ builds' = [builds EXCEPT ![b] = IdleBuild]
    /\ \/ listJson' = Doc(builds[b].result)
       \/ /\ \E c \in BuildIds \ {b} : builds[c].pc = "writing"
          /\ listJson' = NoDoc("invalid")
    /\ NoIndex
    /\ UNCHANGED <<cmVars, lruVars, updVars, rlVars, disk, imageList, imageDetails, loader, lastLoad,
                   fileExistsCache, req>>

\* ------------------------------------------------- api.js: loadImageList
\* loadImageList() up to `await safeReadJson(listPath, {})`
LoadStart ==
    /\ loader.pc = "idle"
    /\ loader' = [IdleLoader EXCEPT !.pc = "list"]
    /\ NoIndex
    /\ UNCHANGED <<cmVars, lruVars, updVars, rlVars, disk, listJson, builds, imageList, imageDetails,
                   lastLoad, fileExistsCache, req>>

\* loadImageList where the document read is assigned to the global at once, as
\* `imageList = await safeReadJson(listPath, {})`
LoadListAssign ==
    /\ loader.pc = "list"
    /\ loader' = [pc |-> "details", newImageList |-> SafeReadJson(listJson)]
    /\ imageList' = SafeReadJson(listJson)
    /\ NoIndex
    /\ UNCHANGED <<cmVars, lruVars, updVars, rlVars, disk, listJson, builds, imageDetails, lastLoad,
                   fileExistsCache, req>>

\* safeReadJson(listPath, {}) returns into the local newImageList; loadImageList
\* goes on to `await safeReadJson(detailsPath, [])`
LoadList ==
    /\ loader.pc = "list"
    /\ loader' = [pc |-> "details", newImageList |-> SafeReadJson(listJson)]
    /\ NoIndex
    /\ UNCHANGED <<cmVars, lruVars, updVars, rlVars, disk, listJson, builds, imageList, imageDetails,
                   lastLoad, fileExistsCache, req>>

\* safeReadJson(detailsPath, []) returns; the conversion, the assignment of both
\* globals and fileExistsCache.clear()
LoadDetails ==
    /\ loader.pc = "details"
    /\ imageList' = loader.newImageList
    /\ imageDetails' = LoadedDetails(loader.newImageList)
    /\ lastLoad' = <<loader.newImageList, LoadedDetails(loader.newImageList)>>
    /\ fileExistsCache' = NoFileChecks
    /\ loader' = IdleLoader
    /\ NoIndex
    /\ UNCHANGED <<cmVars, lruVars, updVars, rlVars, disk, listJson, builds, req>>

\* ---------------------------------------------- api.js: reading the index
\* a call getRandomImage(directory) and the record it draws
DrawRandom(directory) ==
    /\ \E r \in GetRandomImage(imageDetails, directory) :
         idx' = [op |-> "random", directory |-> directory, filename |-> << >>, res |-> r]
    /\ UNCHANGED <<cmVars, lruVars, updVars, rlVars, disk, listJson, builds, imageList, imageDetails,
                   loader, lastLoad, fileExistsCache, req>>

\* a call findSpecificImage(directory, filename)
FindExact(directory, filename) ==
    /\ idx' = [op |-> "find", directory |-> directory, filename |-> filename,
               res |-> FindSpecificImage(imageDetails, directory, filename)]
    /\ UNCHANGED <<cmVars, lruVars, updVars, rlVars, disk, listJson, builds, imageList, imageDetails,
                   loader, lastLoad, fileExistsCache, req>>

\* ------------------------------------------- api.js: handleApiRequest
\* the facade as handleApiRequest finds it while the external client is not in
\* use: get, set(key, value) and del run to their end without waiting
FacadeGetRes(s, k) == IF enabled THEN MapGetRes(s, k) ELSE 0
FacadeGetState(s, k) == IF enabled THEN MapGetState(s, k) ELSE s
FacadeSetState(s, k, v) ==
    IF enabled /\ CacheTTL(NoArg) > 0 THEN MapSet(s, k, v, CacheTTL(NoArg)) ELSE s
FacadeDelState(s, k) == IF enabled THEN MapDel(s, k) ELSE s

\* the response is sent
Finish(t, status) == [t EXCEPT !.r.pc = "done", !.r.status = status]

\* res.sendFile(path): the framework answers 404 for a file that is not there
SendFile(t, file) == Finish(t, IF file \in disk THEN 200 ELSE 404)

\* lines 359-421, and the catch of 423-434: the 404, or the cache write and the
\* response
Respond(t, img) ==
    IF img = Threw THEN Finish(t, 500)
    ELSE IF img = NoImage THEN Finish([t EXCEPT !.r.img = NoImage], 404)
    ELSE LET t1 == IF ~IsRandomRequest(t.r.parts) /\ t.r.key # 0
                   THEN [t EXCEPT !.s = FacadeSetState(t.s, t.r.key, CacheData(img)),
                                  !.r.calls = @ \cup {"set"}, !.r.img = img]
                   ELSE [t EXCEPT !.r.img = img]
         IN IF t.r.isJson THEN Finish([t1 EXCEPT !.r.body = JsonBody(FALSE)], 200)
            ELSE SendFile(t1, FileOf(img))

\* lines 349-356 once cachedPathExists has answered
MissAfterExists(t, img, exists) == Respond(t, IF exists THEN img ELSE NoImage)

\* lines 334-357: the selection, up to `await fs.pathExists` when the file of
\* an exact request has no entry in fileExistsCache
Select(t) ==
    LET parts == t.r.parts
    IN IF Len(parts) < 2
       THEN LET directory == IF Len(parts) = 0 THEN NoDir ELSE parts[1]
                t1 == [t EXCEPT !.r.empty = Filtered(imageDetails, directory) = {}]
            IN {Respond(t1, img) : img \in GetRandomImage(imageDetails, directory)}
       ELSE LET img == FindSpecificImage(imageDetails, parts[1], Tail(parts))
            IN IF img = NoImage THEN {Respond(t, NoImage)}
               ELSE IF t.fec[FileOf(img)] # "none"
                    THEN {MissAfterExists(t, img, t.fec[FileOf(img)] = "yes")}
                    ELSE {[t EXCEPT !.r.pc = "missExists", !.r.img = img]}

\* lines 321-330 once cachedPathExists has answered
HitAfterExists(t, exists) ==
    IF exists THEN {SendFile(t, CachedFile(t.r.hit))}
    ELSE Select([t EXCEPT !.s = FacadeDelState(t.s, t.r.key),
                          !.r.calls = @ \cup {"del"}])

\* lines 299-332: the cache check of an exact request
Start(t) ==
    IF ~IsRandomRequest(t.r.parts) /\ t.r.key # 0
    THEN LET cached == FacadeGetRes(t.s, t.r.key)
             t1 == [t EXCEPT !.s = FacadeGetState(t.s, t.r.key),
                             !.r.calls = {"get"}, !.r.hit = cached]
         IN IF cached = 0 THEN Select(t1)
            ELSE IF t.r.isJson THEN {Finish([t1 EXCEPT !.r.body = JsonBody(TRUE)], 200)}
            ELSE IF t.fec[CachedFile(cached)] # "none"
                 THEN HitAfterExists(t1, t.fec[CachedFile(cached)] = "yes")
                 ELSE {[t1 EXCEPT !.r.pc = "hitExists"]}
    ELSE Select(t)

\* the handler's step takes effect
Commit(t) ==
    /\ req' = t.r
    /\ Put(t.s)
    /\ fileExistsCache' = t.fec
    /\ NoIndex
    /\ UNCHANGED <<lruVars, updVars, rlVars, enabled, cfgTTL, initialized, cleanupInterval, co, closing,
                   inflight, redisStore, now, last, written, disk, listJson, builds,
                   imageList, imageDetails, loader, lastLoad>>

\* whether `parts` names a record of `details` whose file is not in `files`
StaleIn(details, files, parts) ==
    /\ Len(parts) >= 2
    /\ FindSpecificImage(details, parts[1], Tail(parts)) # NoImage
    /\ FileOf(FindSpecificImage(details, parts[1], Tail(parts))) \notin files

\* whether the exact request is for an indexed record whose file is gone
StaleEntry(parts) == StaleIn(imageDetails, disk, parts)

\* handleApiRequest(req, res) up to its first wait for the file system, or to
\* its response
HandleApiRequest(parts, isJson) ==
    /\ initialized
    /\ ~UseRedis(S)
    /\ req.pc \in {"idle", "done"}
    /\ \E t \in Start([r |-> [NoRequest EXCEPT !.parts = parts, !.isJson = isJson,
                                               !.key = GenerateCacheKey(parts, isJson),
                                               !.stale = StaleEntry(parts)],
                       s |-> S, fec |-> fileExistsCache]) : Commit(t)

\* cachedPathExists(filePath) of a cache hit resumes after `await fs.pathExists`
PathExistsHit ==
    /\ req.pc = "hitExists"
    /\ LET f == CachedFile(req.hit)
           fec == [fileExistsCache EXCEPT ![f] = IF f \in disk THEN "yes" ELSE "no"]
       IN \E t \in HitAfterExists([r |-> req, s |-> S, fec |-> fec], f \in disk) :
            Commit(t)

\* cachedPathExists(selectedImage._fullPath) resumes after `await fs.pathExists`
PathExistsMiss ==
    /\ req.pc = "missExists"
    /\ LET f == FileOf(req.img)
           fec == [fileExistsCache EXCEPT ![f] = IF f \in disk THEN "yes" ELSE "no"]
       IN Commit(MissAfterExists([r |-> req, s |-> S, fec |-> fec], req.img, f \in disk))

\* ------------------------------------------------ utils.js: safeWriteJson
\* safeWriteJson(filePath, data) is called and reaches `await fs.pathExists(lockFile)`
SafeWriteJson(w) ==
    /\ writers[w].pc \in {"idle", "done"}
    /\ writers' = [writers EXCEPT ![w] = [IdleWriter EXCEPT !.pc = "check"]]
    /\ UNCHANGED <<cmVars, lruVars, apiVars, rlVars, validToken, upd, wfiles>>

\* fs.pathExists(lockFile) answers
CheckLock(w) ==
    /\ writers[w].pc = "check"
    /\ writers' = [writers EXCEPT ![w] =
                     IF wfiles.lock
                     THEN [@ EXCEPT !.pc = "delay", !.lost = @ + 1]
                     ELSE [@ EXCEPT !.pc = "lock"]]
    /\ UNCHANGED <<cmVars, lruVars, apiVars, rlVars, validToken, upd, wfiles>>

\* the retry delay is over: i++, and the next iteration or `return false`
RetryDelay(w) ==
    /\ writers[w].pc = "delay"
    /\ writers' = [writers EXCEPT ![w] =
                     IF @.i + 1 < writeMaxRetries
                     THEN [@ EXCEPT !.i = @ + 1, !.pc = "check"]
                     ELSE [@ EXCEPT !.i = @ + 1, !.pc = "done", !.res = "false"]]
    /\ UNCHANGED <<cmVars, lruVars, apiVars, rlVars, validToken, upd, wfiles>>

\* fs.writeFile(lockFile, pid) creates the lock file or overwrites it
CreateLock(w) ==
    /\ writers[w].pc = "lock"
    /\ writers' = [writers EXCEPT ![w].pc = "temp"]
    /\ wfiles' = [wfiles EXCEPT !.lock = TRUE]
    /\ UNCHANGED <<cmVars, lruVars, apiVars, rlVars, validToken, upd>>

\* fs.writeJson(tempFile, data)
WriteTemp(w) ==
    /\ writers[w].pc = "temp"
    /\ writers' = [writers EXCEPT ![w].pc = "move"]
    /\ wfiles' = [wfiles EXCEPT !.temp = w]
    /\ UNCHANGED <<cmVars, lruVars, apiVars, rlVars, validToken, upd>>

\* fs.move(tempFile, filePath, { overwrite: true }); it throws when the temp
\* file is not there
Move(w) ==
    /\ writers[w].pc = "move"
    /\ IF wfiles.temp # 0
       THEN /\ wfiles' = [wfiles EXCEPT !.target = wfiles.temp, !.temp = 0]
            /\ writers' = [writers EXCEPT ![w].pc = "unlink"]
       ELSE /\ writers' = [writers EXCEPT ![w].pc = "catch"]
            /\ UNCHANGED wfiles
    /\ UNCHANGED <<cmVars, lruVars, apiVars, rlVars, validToken, upd>>

\* fs.unlink(lockFile) and `return true`; it throws when the lock file is
\* not there
Unlink(w) ==
    /\ writers[w].pc = "unlink"
    /\ IF wfiles.lock
       THEN /\ wfiles' = [wfiles EXCEPT !.lock = FALSE]
            /\ writers' = [writers EXCEPT ![w] = [@ EXCEPT !.pc = "done", !.res = "true"]]
       ELSE /\ writers' = [writers EXCEPT ![w].pc = "catch"]
            /\ UNCHANGED wfiles
    /\ UNCHANGED <<cmVars, lruVars, apiVars, rlVars, validToken, upd>>

\* the catch block: the temp file and the lock file are removed if they
\* exist, then `throw error` in the last iteration, the retry delay otherwise
WriteCatch(w) ==
    /\ writers[w].pc = "catch"
    /\ wfiles' = [wfiles EXCEPT !.lock = FALSE, !.temp = 0]
    /\ writers' = [writers EXCEPT ![w] =
                     IF @.i = writeMaxRetries - 1
                     THEN [@ EXCEPT !.pc = "done", !.res = "throw"]
                     ELSE [@ EXCEPT !.pc = "delay"]]
    /\ UNCHANGED <<cmVars, lruVars, apiVars, rlVars, validToken, upd>>

\* events of the connection life cycle
ConnNext ==
    \/ Initialize
    \/ TimerFire
    \/ ConnectResume
    \/ \E c \in ClientIds : ConnectOk(c)
    \/ \E c \in ClientIds : ConnectFail(c)
    \/ \E c \in ClientIds : ClientError(c)
    \/ \E c \in ClientIds : ClientEnd(c)
    \/ \E r \in inflight : ReplyOk(r)
    \/ \E r \in inflight : ReplyFail(r)

\* what becomes of a client that was disconnected while it was connecting
\* (only a management call disconnects a client in that state)
StaleNext ==
    \/ \E c \in ClientIds : AbortedOk(c)
    \/ \E c \in ClientIds : AbortedFail(c)
    \/ \E c \in ClientIds : AbortedDrop(c)

\* the management interface
AdminNext ==
    \/ ResetRetryCount
    \/ ManualReconnect
    \/ CloseStart
    \/ CloseFinish

\* facade calls with keys K, values V and ttl arguments T
FacadeNext(K, V, T) ==
    \/ \E k \in K : Get(k)
    \/ \E k \in K, v \in V, ttl \in T : Set(k, v, ttl)
    \/ \E k \in K : Del(k)
    \/ Clear

TimeNext ==
    \/ CleanExpiredMapCache
    \/ Tick
    \/ \E k \in Keys : RedisExpire(k)

\* the connection life cycle under every management call, with one cached record
Next ==
    \/ ConnNext
    \/ StaleNext
    \/ AdminNext
    \/ FacadeNext({1}, {1}, {NoArg})

Spec == Init /\ [][Next]_vars

\* the cache contents over time, with the connection events of normal operation
CacheNext ==
    \/ ConnNext
    \/ FacadeNext(Keys, Values, TTLArgs)
    \/ TimeNext

\* a deployment that configures a positive ttl; explicit ttl arguments still
\* cover the non-positive case
InitCache == Init /\ cfgTTL > 0

SpecCache == InitCache /\ [][CacheNext]_vars

\* the external cache is unreachable from the start: every connection attempt
\* fails, and nobody calls the management interface
UnreachableNext ==
    \/ Initialize
    \/ TimerFire
    \/ \E c \in ClientIds : ConnectFail(c)
    \/ FacadeNext(Keys, Values, {NoArg})
    \/ CleanExpiredMapCache
    \/ Tick

SpecUnreachable == Init /\ [][UnreachableNext]_vars

\* the facade over a connection that comes and goes; the manager's own timer
\* callback and continuation are bound to run, and so is the rejection of the
\* commands of a client that has closed; the answers of the external cache to
\* a client that is connected are not
SpecFacadeLive ==
    /\ Init
    /\ [][ConnNext \/ FacadeNext({1}, {1}, {NoArg})]_vars
    /\ WF_vars(TimerFire)
    /\ WF_vars(ConnectResume)
    /\ WF_vars(\E r \in inflight : clients[r.c].st # "ready" /\ ReplyFail(r))

\* the lookups of the LRU-cached API variant
LruNext ==
    \E p \in Files, info \in Infos : CacheGetFileInfo(p, info)

SpecLru == Init /\ [][LruNext]_vars

\* the image directory changes
DiskNext ==
    \/ \E f \in FileUniverse : FileDelete(f)
    \/ \E f \in FileUniverse : FileAdd(f)

\* the steps of the builds B once generateListJson has been called
WalkNext(B) ==
    \/ \E b \in B : ReaddirRoot(b)
    \/ \E b \in B, d \in SubDirs \cup {SUBROOT} : ReaddirSub(b, d)
    \/ \E b \in B : WriteOpen(b)
    \/ \E b \in B : WriteDone(b)

\* update.js with the builds B, started by the timer
BuildNext(B) ==
    \/ \E b \in B : AutoUpdate(b)
    \/ WalkNext(B)

LoadNext ==
    \/ LoadStart
    \/ LoadList
    \/ LoadDetails

QueryNext ==
    \/ \E d \in DirArgs \cup {NoDir} : DrawRandom(d)
    \/ \E a \in FindArgs : FindExact(a[1], a[2])

\* the manifest: one build at a time, and loads
IndexNext ==
    \/ DiskNext
    \/ BuildNext({1})
    \/ LoadNext

\* calls that read the index, over the manifests of a directory that loses files
QueryEnvNext ==
    \/ \E f \in FileUniverse : FileDelete(f)
    \/ BuildNext({1})
    \/ LoadNext
    \/ QueryNext

\* update.js alone, with every build the model follows
SpecBuild ==
    Init /\ [][\/ DiskNext
               \/ BuildNext(BuildIds)
               \/ \E b \in BuildIds : ManualUpdate(b, validToken)]_vars

\* update.js over a directory that does not change, which may hold a
\* subdirectory named '_root'
InitRebuild ==
    /\ InitCaches
    /\ validToken = <<1>>
    /\ disk \in SUBSET AllFiles
    /\ listJson = NoDoc("missing")
    /\ builds = [b \in BuildIds |-> IdleBuild]
    /\ imageList = EmptyObject
    /\ imageDetails = {}
    /\ loader = IdleLoader
    /\ lastLoad = <<EmptyObject, {}>>
    /\ idx = NoIndexCall
    /\ fileExistsCache = NoFileChecks
    /\ req = NoRequest

SpecRebuild == InitRebuild /\ [][BuildNext(BuildIds)]_vars

\* update.js with the timer off (updateHours defaults to -1): builds are
\* started by GET /update only; UPDATE_TOKEN is unset or holds a secret
InitUpdate ==
    /\ InitCaches
    /\ validToken \in {<< >>, <<1>>}
    /\ disk = FileUniverse
    /\ listJson = NoDoc("missing")
    /\ builds = [b \in BuildIds |-> IdleBuild]
    /\ imageList = EmptyObject
    /\ imageDetails = {}
    /\ loader = IdleLoader
    /\ lastLoad = <<EmptyObject, {}>>
    /\ idx = NoIndexCall
    /\ fileExistsCache = NoFileChecks
    /\ req = NoRequest

SpecUpdate ==
    InitUpdate /\ [][\/ \E b \in BuildIds, token \in Tokens : ManualUpdate(b, token)
                     \/ WalkNext(BuildIds)]_vars

\* concurrent calls of safeWriteJson on one path
SpecWrite ==
    Init /\ [][\E w \in Writers :
                 \/ SafeWriteJson(w)
                 \/ CheckLock(w)
                 \/ RetryDelay(w)
                 \/ CreateLock(w)
                 \/ WriteTemp(w)
                 \/ Move(w)
                 \/ Unlink(w)
                 \/ WriteCatch(w)]_vars

\* the server after start(): list.json was built when the directory held the
\* files m, and loadImageList has loaded it
InitApi ==
    /\ InitCaches
    /\ validToken = <<1>>
    /\ \E m \in SUBSET FileUniverse :
         /\ disk = m
         /\ listJson = Doc(m)
         /\ imageList = Doc(m)
         /\ imageDetails = ConvertListToDetails(Doc(m))
         /\ lastLoad = <<Doc(m), ConvertListToDetails(Doc(m))>>
    /\ builds = [b \in BuildIds |-> IdleBuild]
    /\ loader = IdleLoader
    /\ idx = NoIndexCall
    /\ fileExistsCache = NoFileChecks
    /\ req = NoRequest

\* requests served from the local map while files disappear and the list is
\* reloaded
ApiNext ==
    \/ Initialize
    \/ \E f \in FileUniverse : FileDelete(f)
    \/ LoadNext
    \/ \E parts \in ReqParts, isJson \in BOOLEAN : HandleApiRequest(parts, isJson)
    \/ PathExistsHit
    \/ PathExistsMiss

SpecApi == InitApi /\ [][ApiNext]_vars

SpecQuery == Init /\ [][QueryEnvNext]_vars

SpecIndex == Init /\ [][IndexNext]_vars

\* =================================================================== claims
FacadeOps == {"get", "set", "del"}

\* the adapter state the facade saw when the call was made
WasConnected == last.conn /\ last.cli /\ ~last.rec

\* C1: with caching enabled and the adapter Disconnected (isRedisConnected false),
\* set(k, v) stores v in the local map without calling the external client, and
\* a later get(k) made while still Disconnected, before the entry's TTL passes
\* and with no del, clear or reconnect in between, returns v from the local map
\* without calling the external client.
C1_SetThenGetLocal ==
    /\ (enabled /\ last.op = "set" /\ ~last.conn /\ CacheTTL(last.ttl) > 0) =>
          /\ ~last.called
          /\ last.done
          /\ mapCache[last.key] = last.val
          /\ written[last.key] = [v |-> last.val,
                                  exp |-> now + CacheTTL(last.ttl) * MsPerSec]
    /\ (enabled /\ last.op = "get" /\ ~last.conn /\ written[last.key].v # 0
          /\ now < written[last.key].exp) =>
          /\ ~last.called
          /\ last.done
          /\ last.src = "map"
          /\ last.res = written[last.key].v

\* C1 witness: a get answered while Disconnected, one second after the set
C1_Witness ==
    /\ last.op = "get" /\ ~last.conn /\ last.res = 2 /\ last.src = "map"
    /\ written[last.key].v = 2
    /\ now > 0
    /\ now < written[last.key].exp

\* C2: when an external get/set/del issued on a healthy adapter fails, the same
\* facade call completes against the local map (set stores the value, get
\* answers from the map, del deletes the key) and returns to the caller.
C2_FallbackOnFailure ==
    (last.op \in FacadeOps /\ last.failed) =>
        /\ last.done
        /\ last.src = "map"
        /\ last.op = "set" =>
              /\ mapCache[last.key] = last.val
              /\ mapCacheTTL[last.key] = now + CacheTTL(last.ttl) * MsPerSec
        /\ last.op = "get" => last.res = mapCache[last.key]
        /\ last.op = "del" => mapCache[last.key] = 0 /\ mapCacheTTL[last.key] = 0

\* C2 witness: a failed external set whose value is now in the local map
C2_Witness ==
    /\ last.op = "set" /\ last.failed /\ WasConnected
    /\ mapCache[last.key] = last.val

\* C4: a facade get/set/del made while the adapter is not Connected
\* (isRedisConnected false, client null, or a reconnect in progress) calls no
\* method of the external client and completes on the local map alone.
C4_NoCallWhenUnhealthy ==
    /\ \A r \in inflight : r.conn /\ r.c # 0 /\ ~r.rec
    /\ (last.op \in FacadeOps /\ ~WasConnected) =>
        /\ ~last.called
        /\ last.done
        /\ last.src # "redis"

\* C4 witness: a get answered from the map while a client exists but is not connected
C4_Witness ==
    /\ last.op = "get" /\ ~last.conn /\ last.cli /\ last.src = "map" /\ ~last.called

CapEnders == {"resetRetryCount", "manualReconnect", "close", "connect"}

\* C5: once retryCount has reached maxRetries, and until resetRetryCount,
\* manualReconnect or close is called or the external cache answers, no step
\* lowers retryCount, arms a reconnect timer, starts a connection attempt or
\* makes the adapter healthy.
C5_StopsAtCap ==
    [][(retryCount >= maxRetries /\ last'.op \notin CapEnders) =>
          /\ retryCount' >= maxRetries
          /\ timers' <= timers
          /\ ~isRedisConnected'
          /\ \A c \in ClientIds :
                clients'[c].st = "connecting" => clients[c].st = "connecting"]_vars

\* C6: right after the 'connect' handler has run, the adapter is healthy,
\* retryCount is 0, isReconnecting is false, no reconnect timer is pending and
\* the local map and its TTL bookkeeping are empty; and a value that get serves
\* from the local map was written there after the last 'connect'.
C6_ConnectResets ==
    /\ last.op = "connect" =>
          /\ isRedisConnected
          /\ retryCount = 0
          /\ ~isReconnecting
          /\ ~retryTimeout
          /\ timers = 0
          /\ mapCache = EmptyMap
          /\ mapCacheTTL = EmptyMap
    /\ (last.op = "get" /\ last.src = "map" /\ last.res # 0) =>
          written[last.key].v = last.res

\* C6 witness: a connect that found local entries and a pending reconnect timer
C6_Witness ==
    /\ last.op = "connect" /\ last.res = 3
    /\ mapCache = EmptyMap /\ timers = 0

\* C7: manualReconnect called with retryCount at maxRetries leaves retryCount 0
\* and no reconnect timer pending and has started a connection attempt; and a
\* 'connect' that follows leaves the adapter healthy with retryCount 0.
C7_ManualReconnectAtCap ==
    /\ (last.op = "manualReconnect" /\ last.res >= maxRetries) =>
          /\ retryCount = 0
          /\ ~retryTimeout
          /\ timers = 0
          /\ co \/ (redisClient # 0 /\ clients[redisClient].st = "connecting")
    /\ last.op = "connect" => isRedisConnected /\ retryCount = 0

\* the capacity configured for the local map (cache.mapMaxSize)
mapMaxSize == 1

\* the keys the local map holds
MapKeys == {k \in Keys : mapCache[k] # 0}

\* C8: the local map of the facade never holds more than mapMaxSize entries.
C8_MapCacheBounded == Cardinality(MapKeys) <= mapMaxSize

\* the paths of the LRU map in its order of insertion
FileCacheOrder == [i \in 1..Len(fileCache) |-> fileCache[i].path]

\* the cached paths of a lookup's pre-state, least recently used first
RecencyBefore ==
    SelectSeq(recency, LAMBDA q : q \in Paths(lruLast.before))

\* C9: the LRU map never holds more than MAX_CACHE entries and keeps them in
\* order of last use; a miss on a full map evicts exactly the least recently
\* used path, a miss on a map with room evicts nothing, and a hit evicts
\* nothing and moves its path to the most recently used end.
C9_LruEviction ==
    /\ Len(fileCache) <= MAX_CACHE
    /\ FileCacheOrder = SelectSeq(recency, LAMBDA q : q \in Paths(fileCache))
    /\ (lruLast.path # 0 /\ ~lruLast.hit /\ Len(lruLast.before) = MAX_CACHE) =>
          /\ lruLast.evicted = {Head(RecencyBefore)}
          /\ Paths(fileCache) =
                (Paths(lruLast.before) \ {Head(RecencyBefore)}) \cup {lruLast.path}
    /\ (lruLast.path # 0 /\ ~lruLast.hit /\ Len(lruLast.before) < MAX_CACHE) =>
          /\ lruLast.evicted = {}
          /\ Paths(fileCache) = Paths(lruLast.before) \cup {lruLast.path}
    /\ (lruLast.path # 0 /\ lruLast.hit) =>
          /\ lruLast.evicted = {}
          /\ Paths(fileCache) = Paths(lruLast.before)
          /\ fileCache[Len(fileCache)].path = lruLast.path
          /\ lruLast.res = lruLast.before[MapValue(lruLast.before, lruLast.path)].info

\* C9 witness: a miss on a full map whose oldest insertion had been protected
\* by a hit, so that a later insertion was evicted
C9_Witness ==
    /\ lruLast.path # 0 /\ ~lruLast.hit
    /\ Len(lruLast.before) = MAX_CACHE
    /\ lruLast.evicted # {}
    /\ \E i \in 1..Len(fileCache) : \E e \in lruLast.evicted : fileCache[i].path < e

\* the calls that invalidate local entries whatever their age
Invalidations == {"del", "clear", "connect", "close"}

\* C10 as stated: a local entry disappears only in a del, a clear or another
\* explicit invalidation, and a get that consults the local map while the entry
\* is there returns it.
C10_OnlyExplicitRemoval ==
    [][\A k \in Keys :
          /\ (mapCache[k] # 0 /\ mapCache'[k] = 0) => last'.op \in Invalidations
          /\ (last'.op = "get" /\ last'.key = k /\ last'.src = "map"
                /\ mapCache[k] # 0) => last'.res = mapCache[k]]_vars

\* C10 amended: a local entry disappears only in a del of its key, a clear, a
\* close, the clearing on 'connect', a get of its key at or after its expiry
\* time, or a sweep after its expiry time; a get that consults the local map
\* before the entry's expiry time returns the entry and keeps it.
C10_RemovalOrExpiry ==
    [][\A k \in Keys :
          /\ (mapCache[k] # 0 /\ mapCache'[k] = 0) =>
                \/ last'.op = "del" /\ last'.key = k
                \/ last'.op \in Invalidations \ {"del"}
                \/ /\ last'.op = "get" /\ last'.key = k
                   /\ mapCacheTTL[k] # 0 /\ now >= mapCacheTTL[k]
                \/ /\ last'.op = "sweep"
                   /\ mapCacheTTL[k] # 0 /\ now > mapCacheTTL[k]
          /\ (last'.op = "get" /\ last'.key = k /\ last'.src = "map"
                /\ mapCache[k] # 0 /\ now < mapCacheTTL[k]) =>
                /\ last'.res = mapCache[k]
                /\ mapCache'[k] = mapCache[k]]_vars

\* C10 witness: the sweep has just removed an entry whose expiry time had passed
C10_Witness ==
    /\ last.op = "sweep" /\ last.res >= 1
    /\ \E k \in Keys : written[k].v # 0 /\ now > written[k].exp /\ mapCache[k] = 0

\* the TTL of a set as the contract reads it: the explicit argument when one is
\* given, otherwise the configured ttl
GivenTTL(ttl) == IF ttl # NoArg THEN ttl ELSE cfgTTL

\* C11: a set(key, value, ttl) whose TTL (the explicit ttl argument when given,
\* otherwise the configured ttl) is zero or negative modifies neither the
\* external cache nor the local map, and hands nothing to the external client.
C11_NonPositiveTTLBypasses ==
    [][(last'.op = "set" /\ GivenTTL(last'.ttl) <= 0) =>
          /\ mapCache' = mapCache
          /\ mapCacheTTL' = mapCacheTTL
          /\ redisStore' = redisStore
          /\ inflight' = inflight]_vars

\* C12: when caching is disabled by configuration, every get returns absent
\* without consulting a store, set/del/clear leave the local map and the
\* external cache as they were (empty), nothing is handed to the external
\* client, and no connection attempt, reconnect timer or cleanup timer exists.
C12_DisabledIsNoOp ==
    ~enabled =>
        /\ mapCache = EmptyMap /\ mapCacheTTL = EmptyMap
        /\ redisStore = EmptyMap
        /\ inflight = {}
        /\ ~last.called /\ last.src = "none" /\ last.res = 0
        /\ last.op \in FacadeOps \cup {"clear"} => last.done
        /\ redisClient = 0 /\ ~isRedisConnected /\ ~isReconnecting /\ ~co
        /\ \A c \in ClientIds : clients[c].st = "closed"
        /\ timers = 0 /\ ~retryTimeout /\ ~cleanupInterval

\* C12 witness: caching disabled, the manager initialized, a get just returned
C12_Witness ==
    /\ ~enabled /\ initialized
    /\ last.op = "get" /\ last.done /\ last.res = 0

\* C13: no facade get, set or del is ever issued on behalf of a random request
\* (a path of zero or one segment): such a request has no cache key, makes no
\* facade call, and leaves the local map and the external cache as they were.
C13_RandomNeverCached ==
    [][(req'.pc # "idle" /\ Len(req'.parts) < 2) =>
          /\ req'.calls = {} /\ req'.key = 0 /\ req'.hit = 0
          /\ UNCHANGED <<mapCache, mapCacheTTL, redisStore, inflight>>]_vars

\* C13 witness: a request for a random image of a directory was answered with
\* a record while the cache held the entry of an earlier exact request
C13_Witness ==
    /\ req.pc = "done" /\ Len(req.parts) = 1 /\ req.status = 200
    /\ req.img # NoImage /\ req.calls = {}
    /\ \E k \in Keys : mapCache[k] # 0

\* C14: an exact lookup, json or file, of an indexed record whose file has been
\* deleted since the list was built ends in a 404, and when it has ended the
\* facade holds no entry for the request's key, whether or not it held one
\* before.
C14_StaleFileInvalidated ==
    [][(req'.pc = "done" /\ req'.stale /\ StaleIn(imageDetails', disk', req'.parts)) =>
          /\ req'.status = 404
          /\ mapCache'[req'.key] = 0]_vars

\* C15: for every index and every directory key d, getRandomImage(d) returns
\* null or a record of the index whose directory is d.
C15_DrawStaysInDirectory ==
    (idx.op = "random" /\ idx.directory # NoDir /\ idx.res # NoImage) =>
        /\ idx.res \in imageDetails
        /\ idx.res.directory = idx.directory

\* C15 witness: a draw in directory 1 returned its record while the index held
\* records of other directories
C15_Witness ==
    /\ idx.op = "random" /\ idx.directory = 1 /\ idx.res # NoImage
    /\ \E img \in imageDetails : img.directory # 1

\* C16: a random request whose candidate list is empty (an empty index, or no
\* record in the directory asked for) gets no record and ends in a 404; a
\* random request never ends in a 500.
C16_EmptyPoolIsNotFound ==
    (req.pc = "done" /\ Len(req.parts) < 2) =>
        /\ req.status # 500
        /\ req.empty => req.status = 404 /\ req.img = NoImage

\* C16 witness: a request for a directory without records, on a non-empty
\* index, ended in a 404
C16_Witness ==
    /\ req.pc = "done" /\ Len(req.parts) = 1 /\ req.empty /\ req.status = 404
    /\ imageDetails # {}

\* C17: findSpecificImage(directory, filename) returns a record only if the
\* record's directory is `directory` and its name is `filename`, and returns
\* null when the index has no such record.
C17_FindIsExact ==
    idx.op = "find" =>
        /\ idx.res # NoImage =>
              /\ idx.res.directory = idx.directory
              /\ <<idx.res.name>> = idx.filename
        /\ (\A img \in imageDetails :
              ~(img.directory = idx.directory /\ <<img.name>> = idx.filename)) =>
              idx.res = NoImage

\* C18: in every state, so wherever a request handler runs while a reload is
\* suspended, imageList and imageDetails are together the result of the last
\* completed load, the record list being the whole conversion of the list.
C18_IndexIsOneLoad ==
    /\ <<imageList, imageDetails>> = lastLoad
    /\ imageDetails = LoadedDetails(imageList)

\* C18 witness: a reload is suspended at its second await holding a list that
\* differs from the loaded one, and the loaded index is non-empty
C18_Witness ==
    /\ loader.pc = "details"
    /\ loader.newImageList # imageList
    /\ imageDetails # {}

\* C19: when a reload fails (list.json is missing, empty, unreadable or not
\* JSON when it is read), a non-empty index loaded before stays in effect.
C19_FailedReloadKeepsIndex ==
    [][(loader.pc = "details" /\ loader'.pc = "idle"
          /\ loader.newImageList.kind # "doc" /\ imageDetails # {}) =>
          UNCHANGED <<imageList, imageDetails>>]_vars

\* C20: at most one build (the directory walk and the write of list.json) is
\* in progress at any time.
C20_SingleFlight == Cardinality(Building) <= 1

\* C21: two runs of generateListJson over an unchanged directory hand the same
\* document to fs.writeFile: the same keys in the same order with the same
\* entries, whatever the order in which the subdirectory reads complete
C21_RebuildIsIdentical ==
    (builds[1].pc = "write" /\ builds[2].pc = "write") =>
        ListText(builds[1]) = ListText(builds[2])

\* C28: in the manifest a build hands to fs.writeFile, the names under '_root'
\* are exactly the image files directly under imgDir
C28_RootKeyIsRootFiles ==
    \A b \in BuildIds :
        builds[b].pc = "write" =>
            {f.name : f \in {g \in builds[b].result : g.dir = ROOT}} =
            {f.name : f \in {g \in disk : g.dir = ROOT}}

\* C26: a command issued on the external cache does not stay pending for ever:
\* the facade call that awaits it eventually returns
C26_CallsReturn ==
    (\E r \in inflight : r.op \in FacadeOps) ~> (\A r \in inflight : r.op \notin FacadeOps)

\* C30: with the external cache unreachable, every reconnect timer that fires
\* starts a connection attempt, and a failed attempt uses up one retry, so that
\* the initial attempt is followed by exactly maxRetries reconnect attempts
C30_RetriesAreAttempts ==
    [][/\ (timers' < timers) =>
             (redisClient' # 0 /\ clients'[redisClient'].st = "connecting")
       /\ (\E c \in ClientIds : clients[c].st = "connecting" /\ clients'[c].st = "closed") =>
             retryCount' <= retryCount + 1]_vars

\* C29: the JSON document of an exact lookup has the fields of imageInfo and
\* no others, whether it is served from the cache or not; in particular it
\* does not carry the path of the file on the server
C29_JsonBodyIsImageInfo ==
    (req.pc = "done" /\ req.isJson /\ req.status = 200 /\ Len(req.parts) >= 2) =>
        /\ req.body = JsonBody(FALSE)
        /\ "_fullPath" \notin req.body

\* C27: when loadImageList installs the reloaded index, the metadata cache
\* holds no entry any more, so that no entry written before the reload can be
\* served by a later exact lookup
C27_ReloadInvalidates ==
    [][(loader.pc = "details" /\ loader'.pc = "idle") => mapCache' = EmptyMap]_vars

\* C24: a reload that reads list.json while a build is writing it, after an
\* earlier document had been loaded, reads a complete document
C24_ReaderSeesWholeDocument ==
    [][(/\ loader.pc = "list" /\ loader'.pc = "details"
        /\ imageList.kind = "doc"
        /\ \E b \in BuildIds : builds[b].pc = "writing") =>
          loader'.newImageList.kind = "doc"]_vars

\* C22: a build is started by GET /update only when a secret is configured and
\* the token is that secret, character for character; any other request is
\* answered 403 and starts no walk and no write
C22_UpdateNeedsExactToken ==
    [][/\ (\E b \in BuildIds : builds[b].pc = "idle" /\ builds'[b].pc = "readdir") =>
             (validToken # << >> /\ upd'.token = validToken)
       /\ (upd' # upd /\ (validToken = << >> \/ upd'.token # validToken)) =>
             (upd'.status = 403 /\ UNCHANGED <<builds, listJson>>)]_vars

\* the callers that have created the lock file and not yet removed it
Holding == {w \in Writers : writers[w].pc \in {"temp", "move", "unlink"}}

\* C23: at most one caller of safeWriteJson at a time is between the creation
\* of the lock file and its removal
C23_OneLockHolder == Cardinality(Holding) <= 1

\* C25: safeWriteJson makes at most writeMaxRetries attempts, and a call that
\* found the lock file in every one of them ends with an error thrown to the
\* caller
C25_ExhaustionIsAnError ==
    \A w \in Writers :
        /\ writers[w].i <= writeMaxRetries
        /\ (writers[w].pc = "done" /\ writers[w].lost = writeMaxRetries) =>
              writers[w].res = "throw"

\* the entries a complete walk of the unchanged directory puts under the
\* keys of its subdirectories
SubdirEntries ==
    {[dir |-> KeyOf(f.dir), name |-> f.name] : f \in {g \in disk : g.dir # ROOT}}

C32_DelRemovesEverywhere ==
    [][(last'.op = "del" /\ last'.done /\ enabled) =>
          (mapCache'[last'.key] = 0 /\ redisStore'[last'.key] = 0)]_vars

\* the connection life cycle with manualReconnect and resetRetryCount, and
\* without close()
ReconnectNext ==
    \/ ConnNext
    \/ StaleNext
    \/ ResetRetryCount
    \/ ManualReconnect
    \/ FacadeNext({1}, {1}, {NoArg})

SpecReconnect == Init /\ [][ReconnectNext]_vars

\* the clients whose connect() has been called and has not settled yet
Connecting == {c \in ClientIds : clients[c].st \in {"connecting", "aborted"}}

\* C33: at most one connection attempt is in progress and at most one
\* reconnect timer is pending, in every reachable state
C33_OneAttemptOneTimer ==
    /\ Cardinality(Connecting) <= 1
    /\ timers <= 1

\* C34: a command that fails after the manager has moved on to another client
\* leaves that newer client, and the reference to it, alone
C34_StaleFailureSparesNewClient ==
    [][\A r \in inflight :
         (/\ r \notin inflight'
          /\ last'.failed
          /\ redisClient # 0
          /\ redisClient # r.c)
         => (/\ redisClient' = redisClient
             /\ clients'[redisClient] = clients[redisClient])]_vars

\* the manager is shut down by close() and nobody calls the management
\* interface otherwise; what was in flight at the call settles during and after it
CloseNext ==
    \/ ConnNext
    \/ StaleNext
    \/ CloseStart
    \/ CloseFinish
    \/ FacadeNext({1}, {1}, {NoArg})

SpecClose == Init /\ [][CloseNext]_vars

\* close() has completed: the sweep interval, which only initialize() starts
\* and only close() stops, is gone, and close() is not at its await
CloseDone == initialized /\ enabled /\ ~cleanupInterval /\ closing = "no"

\* C35: in every state after close() has completed, no reconnect timer is
\* pending and no client is connecting
C35_ClosedStaysClosed ==
    CloseDone => (timers = 0 /\ \A c \in ClientIds : clients[c].st # "connecting")

\* a get that has just been answered from the local map
MapGetReturned == last'.op = "get" /\ last'.done /\ last'.src = "map"

\* the local entry of key k has an expiry time and it is not in the future
PastExpiry(k) == mapCache[k] # 0 /\ mapCacheTTL[k] # 0 /\ now >= mapCacheTTL[k]

\* C36: a get answered from the local map returns no value whose expiry time
\* has passed; an expired entry it finds is a miss and leaves both maps
C36_MapGetNeverStale ==
    [][MapGetReturned =>
         /\ last'.res # 0 => ~PastExpiry(last'.key)
         /\ PastExpiry(last'.key) =>
               /\ last'.res = 0
               /\ mapCache'[last'.key] = 0
               /\ mapCacheTTL'[last'.key] = 0]_vars

\* a get at the very millisecond of the expiry of the value last written to the
\* local map (which the sweep leaves alone) is a miss and removes the entry
C36_Witness ==
    /\ last.op = "get" /\ last.done /\ last.src = "map" /\ last.res = 0
    /\ written[last.key].v # 0
    /\ written[last.key].exp = now
    /\ redisStore[last.key] = 0
    /\ mapCache[last.key] = 0
    /\ mapCacheTTL[last.key] = 0

\* the local maps under every operation that touches them: the facade, the
\* expiry of entries, the sweep, connection events and close()
MapsNext ==
    \/ ConnNext
    \/ StaleNext
    \/ FacadeNext({1}, {1}, {NoArg})
    \/ CleanExpiredMapCache
    \/ Tick
    \/ CloseStart
    \/ CloseFinish

SpecMaps == InitCache /\ [][MapsNext]_vars

\* the keys of a map
KeySet(m) == {k \in Keys : m[k] # 0}

\* C37: the value map and the TTL map have the same keys in every reachable state
C37_MapsInStep == KeySet(mapCache) = KeySet(mapCacheTTL)

\* a del has removed a key that was in the local map, from both maps
C37_Witness ==
    /\ last.op = "del" /\ last.done /\ last.src = "map" /\ last.res = 1
    /\ last.key \notin KeySet(mapCache) \cup KeySet(mapCacheTTL)

\* C38: retryCount stays within 0..maxRetries, and a step that raises it
\* leaves a reconnect timer scheduled
C38_RetryCountBounded ==
    /\ [](retryCount \in 0..maxRetries)
    /\ [][retryCount' > retryCount => (retryTimeout' /\ timers' > 0)]_vars

\* the last permitted reconnect has been scheduled
C38_Witness == retryCount = maxRetries /\ retryTimeout /\ timers = 1

\* ------------------------------------------------------------ rate limiting
\* requests.filter(time => time > windowStart), windowStart = now - WINDOW_SIZE
ValidRequests(times) == SelectSeq(times, LAMBDA time : time > now - WINDOW_SIZE)

\* the limit test with > in place of >=
OverLimitStrict(validRequests) == Len(validRequests) > REQUEST_LIMIT

\* validRequests.length >= REQUEST_LIMIT
OverLimit(validRequests) == Len(validRequests) >= REQUEST_LIMIT

\* requestCounts.size
Size(counts) == Cardinality({c \in IPs : counts[c].has})

\* cleanupRequestCounts() on the map `counts`
CleanupRequestCounts(counts) ==
    [c \in IPs |->
        IF ~counts[c].has THEN NoRecord
        ELSE IF ValidRequests(counts[c].times) = << >> THEN NoRecord
        ELSE Record(ValidRequests(counts[c].times))]

\* checkRateLimit(clientIP)
CheckRateLimit(clientIP) ==
    LET validRequests == ValidRequests(requestCounts[clientIP].times)
        recorded == [requestCounts EXCEPT
                       ![clientIP] = Record(Append(validRequests, now))]
    IN /\ IF OverLimit(validRequests)
          THEN /\ requestCounts' = [requestCounts EXCEPT
                                      ![clientIP] = Record(validRequests)]
               /\ accepted' = accepted
               /\ rl' = [ip |-> clientIP, ok |-> FALSE, at |-> now, done |-> TRUE]
          ELSE /\ requestCounts' = IF Size(recorded) > MAX_CLIENTS
                                   THEN CleanupRequestCounts(recorded)
                                   ELSE recorded
               /\ accepted' = [accepted EXCEPT ![clientIP] = Append(@, now)]
               /\ rl' = [ip |-> clientIP, ok |-> TRUE, at |-> now, done |-> TRUE]
       /\ UNCHANGED <<cmVars, lruVars, apiVars, updVars>>

\* performMaintenance(), every 10 minutes: cleanupFileCache() removes entries
\* older than FILE_CACHE_TTL (5 minutes), which no entry is within MaxTicks
\* seconds, and cleanupRequestCounts()
PerformMaintenance ==
    /\ requestCounts' = CleanupRequestCounts(requestCounts)
    /\ rl' = NoCheck
    /\ UNCHANGED <<cmVars, lruVars, apiVars, updVars, accepted>>

\* requests of several clients over time, and the maintenance timer
RateNext ==
    \/ \E clientIP \in IPs : CheckRateLimit(clientIP)
    \/ PerformMaintenance
    \/ Tick

SpecRate == Init /\ [][RateNext]_vars

\* the clock values of the model, and the window starts that matter
Times == {i * MsPerSec : i \in 0..MaxTicks}
WindowStarts == {i * MsPerSec : i \in (0 - WindowTicks)..MaxTicks}

\* the accepted requests of client c in the window of WINDOW_SIZE ms after a
InWindow(c, a) ==
    Len(SelectSeq(accepted[c], LAMBDA time : a < time /\ time <= a + WINDOW_SIZE))

\* C39: no client has more than REQUEST_LIMIT accepted requests in any window
\* of WINDOW_SIZE ms; a rejected request is recorded nowhere; and a request is
\* accepted exactly when its own client has fewer than REQUEST_LIMIT accepted
\* requests in the window that ends now, whatever other clients did
C39_RateLimitPerClient ==
    /\ [](\A c \in IPs : \A a \in WindowStarts : InWindow(c, a) <= REQUEST_LIMIT)
    /\ [][(rl'.done /\ (rl' # rl \/ accepted' # accepted)) =>
            /\ rl'.ok = (InWindow(rl'.ip, now - WINDOW_SIZE) < REQUEST_LIMIT)
            /\ ~rl'.ok =>
                  /\ accepted' = accepted
                  /\ requestCounts'[rl'.ip].times
                        = ValidRequests(requestCounts[rl'.ip].times)
            /\ \A c \in IPs \ {rl'.ip} : accepted'[c] = accepted[c]]_vars

\* a client at its limit is rejected while the other client, in the same
\* window, has requests accepted
C39_Witness ==
    /\ rl.done /\ ~rl.ok
    /\ InWindow(rl.ip, now - WINDOW_SIZE) = REQUEST_LIMIT
    /\ \E c \in IPs \ {rl.ip} : InWindow(c, now - WINDOW_SIZE) > 0

============================================================================
